---- MODULE Spec2Model ----
(***************************************************************************)
(* State-machine model of the on-chain agent registry subsystem:           *)
(*   AgentIdentityRegistry   (src/antiphon/database/index.ts, 139-477)     *)
(*   AgentReputationRegistry (src/antiphon/plugins/erc8004/index.ts,       *)
(*                            844-1115)                                    *)
(* Every external call is one transaction: it either commits all of its    *)
(* storage writes or reverts with an error and writes nothing.  The        *)
(* variables call and result record the last transaction and its outcome.  *)
(***************************************************************************)
EXTENDS Integers, Sequences, FiniteSets, TLC

\* ------------------------------------------------------------------ inputs
\* The addresses of the model.
Actors == {"a1", "a2", "a3"}
\* The senders of the specifications that record the arguments of a call.
Callers == {"a1", "a2"}
\* address(0)
ZERO == "0x0"
\* Card references offered as arguments; "" is the empty CID.
CIDs == {"", "cid1", "cid2"}
\* Card references of the specification in which all three addresses send.
IndexCIDs == {"", "cid1"}
\* Capability tags offered as arguments; "" is the empty tag.
Tags == {"", "x", "y"}
\* Longest capabilityTags argument of SpecTags.
MaxTags == 3
\* Longest capabilityTags argument of the other specifications of the identity registry.
MaxCardTags == 2

RECURSIVE SeqsUpTo(_, _)
SeqsUpTo(S, n) ==
    IF n = 0 THEN {<<>>}
    ELSE LET shorter == SeqsUpTo(S, n - 1)
         IN  shorter \cup {Append(s, e) : s \in {t \in shorter : Len(t) = n - 1}, e \in S}

\* Longest capabilityTags argument of discoverAgents.
MaxQuery == 2

TagLists == SeqsUpTo(Tags, MaxTags)
QueryLists == SeqsUpTo(Tags, MaxQuery)
CardTagLists == SeqsUpTo(Tags, MaxCardTags)

\* ------------------------------------------------------------------- state
VARIABLES
    s_agents,                  \* address -> AgentInfo
    s_capabilityToAgents,      \* tag -> address[]
    s_agentIndexInCapability,  \* tag -> address -> uint256 (0-based)
    s_agentHasCapability,      \* address -> tag -> bool
    s_registeredAgents,        \* address[]
    s_agentIndexInRegistry,    \* address -> uint256
    s_agentReputations,        \* address -> AgentReputation
    s_agentRatings,            \* address -> Rating[]
    s_lastRatingTime,          \* rater -> targetAgent -> uint256
    s_ratedAgents,             \* address[]
    s_hasBeenRated,            \* address -> bool
    block_timestamp,           \* block.timestamp, the logical clock
    call,                      \* the last transaction: operation, sender, arguments
    result,                    \* its outcome: <<"ok">> or <<error name, error arguments...>>
    env,                       \* process.env: which settings are present
    config,                    \* erc8004Config, x402Config: set or null
    actions,                   \* whose handler each action of the plugins has
    state_data,                \* state.data of the workflow the action handlers share
    effects,                   \* what the agents did outside: requests, uploads, listens
    pc,                        \* where startAgents stands
    serverPort,                \* serverPort of startAgents
    agentMode,                 \* args.mode || process.env.AGENT_MODE || "both"
    ports                      \* what listening on each port leads to

idVars == <<s_agents, s_capabilityToAgents, s_agentIndexInCapability,
            s_agentHasCapability, s_registeredAgents, s_agentIndexInRegistry>>
repVars == <<s_agentReputations, s_agentRatings, s_lastRatingTime, s_ratedAgents,
             s_hasBeenRated>>
offChain == <<env, config, actions, state_data, effects, pc, serverPort, agentMode, ports>>
vars == <<idVars, repVars, block_timestamp, call, result, offChain>>

OK == <<"ok">>

\* The storage of the identity registry the internal functions work on.
IdStore == [agents |-> s_agents, cap2agents |-> s_capabilityToAgents,
            idx |-> s_agentIndexInCapability, has |-> s_agentHasCapability]

\* A sequence without its last element (Solidity's array pop).
Pop(s) == SubSeq(s, 1, Len(s) - 1)

\* ------------------------------------------------------ internal functions
\* Mutant: a capability the agent already has is added again.
AddCapability_repeated(st, agent, capability) ==
    IF capability = "" THEN st
    ELSE [agents |-> [st.agents EXCEPT ![agent].capabilityTags = Append(@, capability)],
          cap2agents |-> [st.cap2agents EXCEPT ![capability] = Append(@, agent)],
          idx |-> [st.idx EXCEPT ![capability][agent] = Len(st.cap2agents[capability])],
          has |-> [st.has EXCEPT ![agent][capability] = TRUE]]

\* One iteration of the loop of _addCapabilities.
AddCapability(st, agent, capability) ==
    IF capability = "" THEN st
    ELSE IF st.has[agent][capability] THEN st
    ELSE [agents |-> [st.agents EXCEPT ![agent].capabilityTags = Append(@, capability)],
          cap2agents |-> [st.cap2agents EXCEPT ![capability] = Append(@, agent)],
          idx |-> [st.idx EXCEPT ![capability][agent] = Len(st.cap2agents[capability])],
          has |-> [st.has EXCEPT ![agent][capability] = TRUE]]

RECURSIVE AddCapabilitiesFrom(_, _, _, _)
AddCapabilitiesFrom(st, agent, capabilities, i) ==
    IF i > Len(capabilities) THEN st
    ELSE AddCapabilitiesFrom(AddCapability(st, agent, capabilities[i]), agent, capabilities, i + 1)

_addCapabilities(st, agent, capabilities) == AddCapabilitiesFrom(st, agent, capabilities, 1)

\* Mutant: the membership flag is not cleared.
RemoveCapability_flagKept(st, agent, capability) ==
    LET list == st.cap2agents[capability]
        indexToRemove == st.idx[capability][agent]
        lastIndex == Len(list) - 1
        lastAgent == list[lastIndex + 1]
        swapped == IF indexToRemove # lastIndex
                   THEN [list EXCEPT ![indexToRemove + 1] = lastAgent]
                   ELSE list
        idx1 == IF indexToRemove # lastIndex
                THEN [st.idx EXCEPT ![capability][lastAgent] = indexToRemove]
                ELSE st.idx
    IN  [agents |-> st.agents,
         cap2agents |-> [st.cap2agents EXCEPT ![capability] = SubSeq(swapped, 1, Len(swapped) - 1)],
         idx |-> [idx1 EXCEPT ![capability][agent] = 0],
         has |-> st.has]

\* Mutant: the last agent of the list is dropped, whoever it is.
RemoveCapability_popOnly(st, agent, capability) ==
    [agents |-> st.agents,
     cap2agents |-> [st.cap2agents EXCEPT ![capability] = Pop(@)],
     idx |-> [st.idx EXCEPT ![capability][agent] = 0],
     has |-> [st.has EXCEPT ![agent][capability] = FALSE]]

\* Mutant: the position of the agent that is moved is not updated.
RemoveCapability_positionKept(st, agent, capability) ==
    LET list == st.cap2agents[capability]
        indexToRemove == st.idx[capability][agent]
        lastIndex == Len(list) - 1
        lastAgent == list[lastIndex + 1]
        swapped == IF indexToRemove # lastIndex
                   THEN [list EXCEPT ![indexToRemove + 1] = lastAgent]
                   ELSE list
    IN  [agents |-> st.agents,
         cap2agents |-> [st.cap2agents EXCEPT ![capability] = Pop(swapped)],
         idx |-> [st.idx EXCEPT ![capability][agent] = 0],
         has |-> [st.has EXCEPT ![agent][capability] = FALSE]]

\* Mutant: the agents behind the removed one move up by one.
RemoveCapability_shifted(st, agent, capability) ==
    LET list == st.cap2agents[capability]
        indexToRemove == st.idx[capability][agent]
        shifted == [i \in 1..(Len(list) - 1) |->
                       IF i <= indexToRemove THEN list[i] ELSE list[i + 1]]
    IN  [agents |-> st.agents,
         cap2agents |-> [st.cap2agents EXCEPT ![capability] = shifted],
         idx |-> [a \in Actors |-> 0] @@ st.idx,
         has |-> [st.has EXCEPT ![agent][capability] = FALSE]]

\* One iteration of the loop of _removeAllCapabilities: swap-and-pop.
\* Positions are 0-based as in the source; sequences are 1-based.
RemoveCapability(st, agent, capability) ==
    LET list == st.cap2agents[capability]
        indexToRemove == st.idx[capability][agent]
        lastIndex == Len(list) - 1
        lastAgent == list[lastIndex + 1]
        swapped == IF indexToRemove # lastIndex
                   THEN [list EXCEPT ![indexToRemove + 1] = lastAgent]
                   ELSE list
        idx1 == IF indexToRemove # lastIndex
                THEN [st.idx EXCEPT ![capability][lastAgent] = indexToRemove]
                ELSE st.idx
    IN  [agents |-> st.agents,
         cap2agents |-> [st.cap2agents EXCEPT ![capability] = Pop(swapped)],
         idx |-> [idx1 EXCEPT ![capability][agent] = 0],
         has |-> [st.has EXCEPT ![agent][capability] = FALSE]]

RECURSIVE RemoveCapabilitiesFrom(_, _, _)
RemoveCapabilitiesFrom(st, agent, i) ==
    IF i > Len(st.agents[agent].capabilityTags) THEN st
    ELSE RemoveCapabilitiesFrom(
             RemoveCapability(st, agent, st.agents[agent].capabilityTags[i]), agent, i + 1)

\* Mutant: the agent's tag list is cleared, the index is left as it was.
_removeAllCapabilities_listOnly(st, agent) ==
    [st EXCEPT !.agents[agent].capabilityTags = <<>>]

_removeAllCapabilities(st, agent) ==
    LET looped == RemoveCapabilitiesFrom(st, agent, 1)
    IN  [looped EXCEPT !.agents[agent].capabilityTags = <<>>]

\* Whether the loop of _removeAllCapabilities panics from iteration i on: the
\* checked subtraction length - 1 on an empty list, or the write at
\* indexToRemove beyond the end of the list.
RECURSIVE RemoveAllCapabilitiesPanicsFrom(_, _, _)
RemoveAllCapabilitiesPanicsFrom(st, agent, i) ==
    IF i > Len(st.agents[agent].capabilityTags) THEN FALSE
    ELSE LET capability == st.agents[agent].capabilityTags[i]
             length == Len(st.cap2agents[capability])
             indexToRemove == st.idx[capability][agent]
         IN  \/ length = 0
             \/ indexToRemove # length - 1 /\ indexToRemove >= length
             \/ RemoveAllCapabilitiesPanicsFrom(RemoveCapability(st, agent, capability),
                                                agent, i + 1)

\* --------------------------------------------------------------- modifiers
\* Mutant: the empty CID passes.
validCID_any(cid) == TRUE

validCID(cid) == cid # ""

\* Mutant: a caller without a record passes.
onlyAgentOwner_any(sender) == TRUE

onlyAgentOwner(sender) == s_agents[sender].isRegistered

\* ------------------------------------------------------------ transactions
Commit(st) ==
    /\ s_agents' = st.agents
    /\ s_capabilityToAgents' = st.cap2agents
    /\ s_agentIndexInCapability' = st.idx
    /\ s_agentHasCapability' = st.has

Revert(err) ==
    /\ result' = err
    /\ UNCHANGED <<idVars, repVars>>

\* Mutant: an agent that has a record registers again.
registerAgent_again(sender, agentCardCID, capabilityTags) ==
    /\ IF ~validCID(agentCardCID) THEN Revert(<<"InvalidCID">>)
       ELSE LET stored == [IdStore EXCEPT !.agents[sender].agentCardCID = agentCardCID,
                                          !.agents[sender].isRegistered = TRUE]
            IN  /\ s_agentIndexInRegistry' =
                       [s_agentIndexInRegistry EXCEPT ![sender] = Len(s_registeredAgents)]
                /\ s_registeredAgents' = Append(s_registeredAgents, sender)
                /\ Commit(_addCapabilities(stored, sender, capabilityTags))
                /\ UNCHANGED repVars
                /\ result' = OK

\* Mutant: the agent is not added to the registered agents array.
registerAgent_unlisted(sender, agentCardCID, capabilityTags) ==
    /\ IF ~validCID(agentCardCID) THEN Revert(<<"InvalidCID">>)
       ELSE IF s_agents[sender].isRegistered THEN Revert(<<"AgentAlreadyRegistered", sender>>)
       ELSE LET stored == [IdStore EXCEPT !.agents[sender].agentCardCID = agentCardCID,
                                          !.agents[sender].isRegistered = TRUE]
            IN  /\ UNCHANGED <<s_agentIndexInRegistry, s_registeredAgents>>
                /\ Commit(_addCapabilities(stored, sender, capabilityTags))
                /\ UNCHANGED repVars
                /\ result' = OK

registerAgent(sender, agentCardCID, capabilityTags) ==
    /\ IF ~validCID(agentCardCID) THEN Revert(<<"InvalidCID">>)
       ELSE IF s_agents[sender].isRegistered THEN Revert(<<"AgentAlreadyRegistered", sender>>)
       ELSE LET stored == [IdStore EXCEPT !.agents[sender].agentCardCID = agentCardCID,
                                          !.agents[sender].isRegistered = TRUE]
            IN  /\ s_agentIndexInRegistry' =
                       [s_agentIndexInRegistry EXCEPT ![sender] = Len(s_registeredAgents)]
                /\ s_registeredAgents' = Append(s_registeredAgents, sender)
                /\ Commit(_addCapabilities(stored, sender, capabilityTags))
                /\ UNCHANGED repVars
                /\ result' = OK

\* Mutant: the new capabilities are added before the old ones are removed.
updateAgentCard_addFirst(sender, newCID, newCapabilityTags) ==
    /\ IF ~onlyAgentOwner(sender) THEN Revert(<<"AgentNotRegistered", sender>>)
       ELSE IF ~validCID(newCID) THEN Revert(<<"InvalidCID">>)
       ELSE LET updated == [IdStore EXCEPT !.agents[sender].agentCardCID = newCID]
                added == _addCapabilities(updated, sender, newCapabilityTags)
            IN  /\ Commit(_removeAllCapabilities(added, sender))
                /\ UNCHANGED <<s_registeredAgents, s_agentIndexInRegistry, repVars>>
                /\ result' = OK

updateAgentCard(sender, newCID, newCapabilityTags) ==
    /\ IF ~onlyAgentOwner(sender) THEN Revert(<<"AgentNotRegistered", sender>>)
       ELSE IF ~validCID(newCID) THEN Revert(<<"InvalidCID">>)
       ELSE LET removed == _removeAllCapabilities(IdStore, sender)
                updated == [removed EXCEPT !.agents[sender].agentCardCID = newCID]
            IN  /\ Commit(_addCapabilities(updated, sender, newCapabilityTags))
                /\ UNCHANGED <<s_registeredAgents, s_agentIndexInRegistry, repVars>>
                /\ result' = OK

\* The events _removeAllCapabilities emits: one for each tag of the agent, in order.
RemoveAllCapabilitiesEvents(st, agent) ==
    [i \in 1..Len(st.agents[agent].capabilityTags) |->
        <<"CapabilityRemoved", agent, st.agents[agent].capabilityTags[i]>>]

\* The events _addCapabilities emits: one for each tag it does not skip.
RECURSIVE AddCapabilitiesEventsFrom(_, _, _, _)
AddCapabilitiesEventsFrom(st, agent, capabilities, i) ==
    IF i > Len(capabilities) THEN <<>>
    ELSE LET capability == capabilities[i]
             emitted == IF capability = "" \/ st.has[agent][capability] THEN <<>>
                        ELSE << <<"CapabilityAdded", agent, capability>> >>
         IN  emitted \o AddCapabilitiesEventsFrom(AddCapability(st, agent, capability),
                                                  agent, capabilities, i + 1)

\* The events a successful updateAgentCard emits from the current state, in order.
UpdateAgentCardEvents(sender, newCID, newCapabilityTags) ==
    LET oldCID == s_agents[sender].agentCardCID
        removed == _removeAllCapabilities(IdStore, sender)
        updated == [removed EXCEPT !.agents[sender].agentCardCID = newCID]
    IN  RemoveAllCapabilitiesEvents(IdStore, sender)
        \o AddCapabilitiesEventsFrom(updated, sender, newCapabilityTags, 1)
        \o << <<"AgentCardUpdated", sender, oldCID, newCID, newCapabilityTags>> >>

\* The views of the identity registry; a view that reverts yields its error.
\* discoverAgents, first pass: the lengths of the queried index lists, added up.
RECURSIVE MaxAgentsFrom(_, _)
MaxAgentsFrom(capabilityTags, i) ==
    IF i > Len(capabilityTags) THEN 0
    ELSE Len(s_capabilityToAgents[capabilityTags[i]]) + MaxAgentsFrom(capabilityTags, i + 1)

\* Mutant: an agent is never found among those collected.
AlreadyAdded_never(tempAgents, agent) == FALSE

\* The loop over k: the agent is among those collected so far.
AlreadyAdded(tempAgents, agent) == \E k \in 1..Len(tempAgents) : tempAgents[k] = agent

\* The loops over i and j. tempAgents has maxAgents slots, of which the first
\* uniqueCount = Len(temp.list) are written; a write beyond them is a panic.
RECURSIVE DiscoverFrom(_, _, _, _, _)
DiscoverFrom(temp, maxAgents, capabilityTags, i, j) ==
    IF i > Len(capabilityTags) THEN temp
    ELSE LET agentsWithCapability == s_capabilityToAgents[capabilityTags[i]]
         IN  IF j > Len(agentsWithCapability)
             THEN DiscoverFrom(temp, maxAgents, capabilityTags, i + 1, 1)
             ELSE LET agent == agentsWithCapability[j]
                  IN  IF AlreadyAdded(temp.list, agent)
                      THEN DiscoverFrom(temp, maxAgents, capabilityTags, i, j + 1)
                      ELSE IF Len(temp.list) >= maxAgents
                      THEN [temp EXCEPT !.panic = TRUE]
                      ELSE DiscoverFrom([temp EXCEPT !.list = Append(@, agent)],
                                        maxAgents, capabilityTags, i, j + 1)

\* Mutant: the empty query is answered.
discoverAgents_emptyAnswered(capabilityTags) ==
    LET maxAgents == MaxAgentsFrom(capabilityTags, 1)
        temp == DiscoverFrom([list |-> <<>>, panic |-> FALSE], maxAgents, capabilityTags, 1, 1)
    IN  IF maxAgents = 0 THEN [value |-> [agents |-> <<>>, cids |-> <<>>]]
        ELSE IF temp.panic THEN [revert |-> <<"Panic">>]
        ELSE [value |-> [agents |-> temp.list,
                         cids |-> [i \in 1..Len(temp.list) |->
                                      s_agents[temp.list[i]].agentCardCID]]]

discoverAgents(capabilityTags) ==
    IF Len(capabilityTags) = 0 THEN [revert |-> <<"EmptyCapabilityTags">>]
    ELSE LET maxAgents == MaxAgentsFrom(capabilityTags, 1)
             temp == DiscoverFrom([list |-> <<>>, panic |-> FALSE], maxAgents,
                                  capabilityTags, 1, 1)
         IN  IF maxAgents = 0 THEN [value |-> [agents |-> <<>>, cids |-> <<>>]]
             ELSE IF temp.panic THEN [revert |-> <<"Panic">>]
             ELSE [value |-> [agents |-> temp.list,
                              cids |-> [i \in 1..Len(temp.list) |->
                                           s_agents[temp.list[i]].agentCardCID]]]

\* Mutant: the card of an address without a record is the default string.
getAgentCard_default(agent) == [value |-> s_agents[agent].agentCardCID]

getAgentCard(agent) ==
    IF ~s_agents[agent].isRegistered THEN [revert |-> <<"AgentNotRegistered", agent>>]
    ELSE [value |-> s_agents[agent].agentCardCID]

getAgentCapabilities(agent) ==
    IF ~s_agents[agent].isRegistered THEN [revert |-> <<"AgentNotRegistered", agent>>]
    ELSE [value |-> s_agents[agent].capabilityTags]

isAgentRegistered(agent) == s_agents[agent].isRegistered

getAgentsByCapability(capability) == s_capabilityToAgents[capability]

getRegisteredAgentsCount == Len(s_registeredAgents)

getAllRegisteredAgents == s_registeredAgents

agentHasCapability(agent, capability) == s_agentHasCapability[agent][capability]

\* The calls of the views of the identity registry, and what each returns.
IdentityViewCalls ==
    {[op |-> op, agent |-> a] :
        op \in {"getAgentCard", "getAgentCapabilities", "isAgentRegistered"}, a \in Actors}
    \cup {[op |-> "getAgentsByCapability", capability |-> t] : t \in Tags}
    \cup {[op |-> "agentHasCapability", agent |-> a, capability |-> t] : a \in Actors, t \in Tags}
    \cup {[op |-> "getRegisteredAgentsCount"], [op |-> "getAllRegisteredAgents"]}

IdentityViewResult(c) ==
    CASE c.op = "getAgentCard" -> getAgentCard(c.agent)
      [] c.op = "getAgentCapabilities" -> getAgentCapabilities(c.agent)
      [] c.op = "isAgentRegistered" -> [value |-> isAgentRegistered(c.agent)]
      [] c.op = "getAgentsByCapability" -> [value |-> getAgentsByCapability(c.capability)]
      [] c.op = "agentHasCapability" -> [value |-> agentHasCapability(c.agent, c.capability)]
      [] c.op = "getRegisteredAgentsCount" -> [value |-> getRegisteredAgentsCount]
      [] c.op = "getAllRegisteredAgents" -> [value |-> getAllRegisteredAgents]

\* A call of a view: it returns, and writes nothing.
IdentityView(c) ==
    /\ call' = c
    /\ result' = IdentityViewResult(c)
    /\ UNCHANGED <<idVars, repVars, block_timestamp, offChain>>

\* ------------------------------------------------------ reputation registry
MIN_RATING == 1
MAX_RATING == 5
SCORE_MULTIPLIER == 100
\* 1 days, in seconds
RATE_LIMIT_PERIOD == 86400

\* uint8 rating arguments offered: both sides of MIN_RATING and of MAX_RATING.
RatingArgs == {0, 1, 4, 5, 6}
\* The (comment, proofCID) arguments offered; proofCID may be empty.
TextArgs == {<<"good", "">>}
\* targetAgent arguments offered.
TargetArgs == Actors \cup {ZERO}
\* The most ratings the ledger stores in a run of SpecReputation.
MaxRatings == 2
\* The (comment, proofCID) arguments of SpecPost: either may be empty.
PostTexts == {<<"good", "">>, <<"", "proof">>}
\* The most ratings the ledger stores in a run of SpecPost.
MaxPosts == 2
\* The most ratings the ledger stores in a run of SpecAtomic.
MaxAtomic == 2
\* The capabilityTags arguments of SpecAtomic.
AtomicTagLists == {<<>>, <<"x">>}
\* The most ratings the ledger stores in a run of SpecParallel.
MaxParallel == 1
\* The capabilityTags arguments of SpecParallel.
SharedTagLists == {<<>>, <<"x">>, <<"y", "x">>}
\* The most ratings the ledger stores in a run of SpecScore.
MaxScored == 3
\* The clock values offered: the seconds around the start and around one period later.
ClockValues == {0, 1, RATE_LIMIT_PERIOD - 1, RATE_LIMIT_PERIOD, RATE_LIMIT_PERIOD + 1}

\* The number of ratings stored for all agents together.
RatingsStored(ratings) ==
    Len(ratings["a1"]) + Len(ratings["a2"]) + Len(ratings["a3"])

\* Mutant: every uint8 rating passes.
validRating_any(rating) == TRUE

\* The modifiers: TRUE when the call passes.
validRating(rating) == ~(rating < MIN_RATING \/ rating > MAX_RATING)

\* Mutant: the limit of a target holds for every rater.
rateLimitCheck_perTarget(sender, targetAgent) ==
    \A r \in Actors :
        LET lastRating == s_lastRatingTime[r][targetAgent]
        IN  ~(lastRating # 0 /\ block_timestamp < lastRating + RATE_LIMIT_PERIOD)

rateLimitCheck(sender, targetAgent) ==
    LET lastRating == s_lastRatingTime[sender][targetAgent]
    IN  ~(lastRating # 0 /\ block_timestamp < lastRating + RATE_LIMIT_PERIOD)

\* Mutant: the rating is added unscaled.
AddRating_unscaled(rep, rating) ==
    [totalScore |-> rep.totalScore + rating,
     totalRatings |-> rep.totalRatings + 1,
     ratingsCount |-> rep.ratingsCount + 1]

\* Mutant: ratingsCount is not advanced.
AddRating_uncounted(rep, rating) ==
    [totalScore |-> rep.totalScore + rating * SCORE_MULTIPLIER,
     totalRatings |-> rep.totalRatings + 1,
     ratingsCount |-> rep.ratingsCount]

\* The reputation of an agent after one more rating.
AddRating(rep, rating) ==
    [totalScore |-> rep.totalScore + rating * SCORE_MULTIPLIER,
     totalRatings |-> rep.totalRatings + 1,
     ratingsCount |-> rep.ratingsCount + 1]

\* Mutant: the rate limit is checked before the rating.
postReputation_limitFirst(sender, targetAgent, rating, comment, proofCID) ==
    IF targetAgent = ZERO THEN Revert(<<"InvalidTargetAgent">>)
    ELSE IF targetAgent = sender THEN Revert(<<"CannotRateSelf">>)
    ELSE IF ~rateLimitCheck(sender, targetAgent)
         THEN Revert(<<"RateLimitExceeded", sender, targetAgent,
                       s_lastRatingTime[sender][targetAgent] + RATE_LIMIT_PERIOD>>)
    ELSE IF ~validRating(rating) THEN Revert(<<"InvalidRating", rating>>)
         ELSE /\ s_lastRatingTime' =
                     [s_lastRatingTime EXCEPT ![sender][targetAgent] = block_timestamp]
              /\ s_agentRatings' =
                     [s_agentRatings EXCEPT ![targetAgent] =
                         Append(@, [rating |-> rating, comment |-> comment,
                                    proofCID |-> proofCID, timestamp |-> block_timestamp,
                                    rater |-> sender])]
              /\ s_agentReputations' =
                     [s_agentReputations EXCEPT ![targetAgent] = AddRating(@, rating)]
              /\ IF ~s_hasBeenRated[targetAgent]
                 THEN /\ s_hasBeenRated' = [s_hasBeenRated EXCEPT ![targetAgent] = TRUE]
                      /\ s_ratedAgents' = Append(s_ratedAgents, targetAgent)
                 ELSE UNCHANGED <<s_hasBeenRated, s_ratedAgents>>
              /\ UNCHANGED idVars
              /\ result' = OK

\* Mutant: the proof reference is not stored.
postReputation_proofDropped(sender, targetAgent, rating, comment, proofCID) ==
    IF targetAgent = ZERO THEN Revert(<<"InvalidTargetAgent">>)
    ELSE IF targetAgent = sender THEN Revert(<<"CannotRateSelf">>)
    ELSE IF ~validRating(rating) THEN Revert(<<"InvalidRating", rating>>)
    ELSE IF ~rateLimitCheck(sender, targetAgent)
         THEN Revert(<<"RateLimitExceeded", sender, targetAgent,
                       s_lastRatingTime[sender][targetAgent] + RATE_LIMIT_PERIOD>>)
         ELSE /\ s_lastRatingTime' =
                     [s_lastRatingTime EXCEPT ![sender][targetAgent] = block_timestamp]
              /\ s_agentRatings' =
                     [s_agentRatings EXCEPT ![targetAgent] =
                         Append(@, [rating |-> rating, comment |-> comment,
                                    proofCID |-> "", timestamp |-> block_timestamp,
                                    rater |-> sender])]
              /\ s_agentReputations' =
                     [s_agentReputations EXCEPT ![targetAgent] = AddRating(@, rating)]
              /\ IF ~s_hasBeenRated[targetAgent]
                 THEN /\ s_hasBeenRated' = [s_hasBeenRated EXCEPT ![targetAgent] = TRUE]
                      /\ s_ratedAgents' = Append(s_ratedAgents, targetAgent)
                 ELSE UNCHANGED <<s_hasBeenRated, s_ratedAgents>>
              /\ UNCHANGED idVars
              /\ result' = OK

\* Mutant: a call rejected by the rate limit moves the time of the last rating.
postReputation_postponed(sender, targetAgent, rating, comment, proofCID) ==
    IF targetAgent = ZERO THEN Revert(<<"InvalidTargetAgent">>)
    ELSE IF targetAgent = sender THEN Revert(<<"CannotRateSelf">>)
    ELSE IF ~validRating(rating) THEN Revert(<<"InvalidRating", rating>>)
    ELSE IF ~rateLimitCheck(sender, targetAgent)
         THEN /\ result' = <<"RateLimitExceeded", sender, targetAgent,
                           s_lastRatingTime[sender][targetAgent] + RATE_LIMIT_PERIOD>>
              /\ s_lastRatingTime' =
                     [s_lastRatingTime EXCEPT ![sender][targetAgent] = block_timestamp]
              /\ UNCHANGED <<idVars, s_agentReputations, s_agentRatings, s_ratedAgents,
                             s_hasBeenRated>>
         ELSE /\ s_lastRatingTime' =
                     [s_lastRatingTime EXCEPT ![sender][targetAgent] = block_timestamp]
              /\ s_agentRatings' =
                     [s_agentRatings EXCEPT ![targetAgent] =
                         Append(@, [rating |-> rating, comment |-> comment,
                                    proofCID |-> proofCID, timestamp |-> block_timestamp,
                                    rater |-> sender])]
              /\ s_agentReputations' =
                     [s_agentReputations EXCEPT ![targetAgent] = AddRating(@, rating)]
              /\ IF ~s_hasBeenRated[targetAgent]
                 THEN /\ s_hasBeenRated' = [s_hasBeenRated EXCEPT ![targetAgent] = TRUE]
                      /\ s_ratedAgents' = Append(s_ratedAgents, targetAgent)
                 ELSE UNCHANGED <<s_hasBeenRated, s_ratedAgents>>
              /\ UNCHANGED idVars
              /\ result' = OK

\* Mutant: the new rating takes the place of the stored ones.
postReputation_overwritten(sender, targetAgent, rating, comment, proofCID) ==
    IF targetAgent = ZERO THEN Revert(<<"InvalidTargetAgent">>)
    ELSE IF targetAgent = sender THEN Revert(<<"CannotRateSelf">>)
    ELSE IF ~validRating(rating) THEN Revert(<<"InvalidRating", rating>>)
    ELSE IF ~rateLimitCheck(sender, targetAgent)
         THEN Revert(<<"RateLimitExceeded", sender, targetAgent,
                       s_lastRatingTime[sender][targetAgent] + RATE_LIMIT_PERIOD>>)
         ELSE /\ s_lastRatingTime' =
                     [s_lastRatingTime EXCEPT ![sender][targetAgent] = block_timestamp]
              /\ s_agentRatings' =
                     [s_agentRatings EXCEPT ![targetAgent] =
                         << [rating |-> rating, comment |-> comment,
                             proofCID |-> proofCID, timestamp |-> block_timestamp,
                             rater |-> sender] >>]
              /\ s_agentReputations' =
                     [s_agentReputations EXCEPT ![targetAgent] = AddRating(@, rating)]
              /\ IF ~s_hasBeenRated[targetAgent]
                 THEN /\ s_hasBeenRated' = [s_hasBeenRated EXCEPT ![targetAgent] = TRUE]
                      /\ s_ratedAgents' = Append(s_ratedAgents, targetAgent)
                 ELSE UNCHANGED <<s_hasBeenRated, s_ratedAgents>>
              /\ UNCHANGED idVars
              /\ result' = OK

\* Mutant: only a registered agent can be rated.
postReputation_registeredOnly(sender, targetAgent, rating, comment, proofCID) ==
    IF targetAgent = ZERO THEN Revert(<<"InvalidTargetAgent">>)
    ELSE IF ~s_agents[targetAgent].isRegistered
         THEN Revert(<<"AgentNotRegistered", targetAgent>>)
    ELSE IF targetAgent = sender THEN Revert(<<"CannotRateSelf">>)
    ELSE IF ~validRating(rating) THEN Revert(<<"InvalidRating", rating>>)
    ELSE IF ~rateLimitCheck(sender, targetAgent)
         THEN Revert(<<"RateLimitExceeded", sender, targetAgent,
                       s_lastRatingTime[sender][targetAgent] + RATE_LIMIT_PERIOD>>)
         ELSE /\ s_lastRatingTime' =
                     [s_lastRatingTime EXCEPT ![sender][targetAgent] = block_timestamp]
              /\ s_agentRatings' =
                     [s_agentRatings EXCEPT ![targetAgent] =
                         Append(@, [rating |-> rating, comment |-> comment,
                                    proofCID |-> proofCID, timestamp |-> block_timestamp,
                                    rater |-> sender])]
              /\ s_agentReputations' =
                     [s_agentReputations EXCEPT ![targetAgent] = AddRating(@, rating)]
              /\ IF ~s_hasBeenRated[targetAgent]
                 THEN /\ s_hasBeenRated' = [s_hasBeenRated EXCEPT ![targetAgent] = TRUE]
                      /\ s_ratedAgents' = Append(s_ratedAgents, targetAgent)
                 ELSE UNCHANGED <<s_hasBeenRated, s_ratedAgents>>
              /\ UNCHANGED idVars
              /\ result' = OK

postReputation(sender, targetAgent, rating, comment, proofCID) ==
    IF targetAgent = ZERO THEN Revert(<<"InvalidTargetAgent">>)
    ELSE IF targetAgent = sender THEN Revert(<<"CannotRateSelf">>)
    ELSE IF ~validRating(rating) THEN Revert(<<"InvalidRating", rating>>)
    ELSE IF ~rateLimitCheck(sender, targetAgent)
         THEN Revert(<<"RateLimitExceeded", sender, targetAgent,
                       s_lastRatingTime[sender][targetAgent] + RATE_LIMIT_PERIOD>>)
         ELSE /\ s_lastRatingTime' =
                     [s_lastRatingTime EXCEPT ![sender][targetAgent] = block_timestamp]
              /\ s_agentRatings' =
                     [s_agentRatings EXCEPT ![targetAgent] =
                         Append(@, [rating |-> rating, comment |-> comment,
                                    proofCID |-> proofCID, timestamp |-> block_timestamp,
                                    rater |-> sender])]
              /\ s_agentReputations' =
                     [s_agentReputations EXCEPT ![targetAgent] = AddRating(@, rating)]
              /\ IF ~s_hasBeenRated[targetAgent]
                 THEN /\ s_hasBeenRated' = [s_hasBeenRated EXCEPT ![targetAgent] = TRUE]
                      /\ s_ratedAgents' = Append(s_ratedAgents, targetAgent)
                 ELSE UNCHANGED <<s_hasBeenRated, s_ratedAgents>>
              /\ UNCHANGED idVars
              /\ result' = OK

\* Mutant: the sum is divided before it is scaled.
getReputationScore_divideFirst(agent) ==
    LET rep == s_agentReputations[agent]
        totalRatings == rep.totalRatings
    IN  IF totalRatings = 0 THEN <<0, 0>>
        ELSE <<((rep.totalScore \div SCORE_MULTIPLIER) \div totalRatings) * SCORE_MULTIPLIER,
               totalRatings>>

\* The views of the reputation registry.
getReputationScore(agent) ==
    LET rep == s_agentReputations[agent]
        totalRatings == rep.totalRatings
    IN  IF totalRatings = 0 THEN <<0, 0>>
        ELSE <<rep.totalScore \div totalRatings, totalRatings>>

getAllRatings(agent) == s_agentRatings[agent]

getRatingsCount(agent) == Len(s_agentRatings[agent])

hasBeenRated(agent) == s_hasBeenRated[agent]

\* Mutant: FirstRatingReceived is emitted for every rating.
PostReputationEvents_everyRating(sender, targetAgent, rating, comment, proofCID) ==
    << <<"FirstRatingReceived", targetAgent>>,
       <<"ReputationPosted", targetAgent, sender, rating, comment, proofCID, block_timestamp>> >>

\* The events a successful postReputation emits from the current state, in order.
PostReputationEvents(sender, targetAgent, rating, comment, proofCID) ==
    (IF ~s_hasBeenRated[targetAgent] THEN << <<"FirstRatingReceived", targetAgent>> >>
     ELSE <<>>)
    \o << <<"ReputationPosted", targetAgent, sender, rating, comment, proofCID,
            block_timestamp>> >>

\* Mutant: the oldest ratings are returned, oldest first.
getRecentRatings_oldestFirst(agent, limit) ==
    IF limit = 0 THEN [revert |-> <<"InvalidLimit">>]
    ELSE LET allRatings == s_agentRatings[agent]
             totalRatings == Len(allRatings)
             count == IF limit > totalRatings THEN totalRatings ELSE limit
         IN  [value |-> [i \in 1..count |-> allRatings[i]]]

getRecentRatings(agent, limit) ==
    IF limit = 0 THEN [revert |-> <<"InvalidLimit">>]
    ELSE LET allRatings == s_agentRatings[agent]
             totalRatings == Len(allRatings)
             count == IF limit > totalRatings THEN totalRatings ELSE limit
         IN  IF totalRatings = 0 THEN [value |-> <<>>]
             ELSE [value |-> [i \in 1..count |-> allRatings[totalRatings - (i - 1)]]]

\* Mutant: the next allowed second itself is refused.
canRate_strict(rater, targetAgent) ==
    LET lastRating == s_lastRatingTime[rater][targetAgent]
        nextAllowedTime == lastRating + RATE_LIMIT_PERIOD
    IN  IF lastRating = 0 THEN <<TRUE, 0>>
        ELSE IF block_timestamp > nextAllowedTime THEN <<TRUE, 0>>
        ELSE <<FALSE, nextAllowedTime>>

canRate(rater, targetAgent) ==
    LET lastRating == s_lastRatingTime[rater][targetAgent]
        nextAllowedTime == lastRating + RATE_LIMIT_PERIOD
    IN  IF lastRating = 0 THEN <<TRUE, 0>>
        ELSE IF block_timestamp >= nextAllowedTime THEN <<TRUE, 0>>
        ELSE <<FALSE, nextAllowedTime>>

\* The clock moves forward between blocks.
Warp(t) ==
    /\ t > block_timestamp
    /\ block_timestamp' = t
    /\ UNCHANGED <<idVars, repVars, call, result, offChain>>

\* ------------------------------------------------- transactions as functions
\* The storage of both registries.
World ==
    [id |-> IdStore,
     registeredAgents |-> s_registeredAgents,
     agentIndexInRegistry |-> s_agentIndexInRegistry,
     agentReputations |-> s_agentReputations,
     agentRatings |-> s_agentRatings,
     lastRatingTime |-> s_lastRatingTime,
     ratedAgents |-> s_ratedAgents,
     hasBeenRated |-> s_hasBeenRated]

\* A transaction applied to a storage w: the storage it leaves and its outcome.
Reverted(w, err) == [world |-> w, result |-> err]

registerAgentOn(w, sender, agentCardCID, capabilityTags) ==
    IF ~validCID(agentCardCID) THEN Reverted(w, <<"InvalidCID">>)
    ELSE IF w.id.agents[sender].isRegistered
    THEN Reverted(w, <<"AgentAlreadyRegistered", sender>>)
    ELSE LET stored == [w.id EXCEPT !.agents[sender].agentCardCID = agentCardCID,
                                    !.agents[sender].isRegistered = TRUE]
         IN  [world |-> [w EXCEPT !.agentIndexInRegistry[sender] = Len(w.registeredAgents),
                                  !.registeredAgents = Append(@, sender),
                                  !.id = _addCapabilities(stored, sender, capabilityTags)],
              result |-> OK]

updateAgentCardOn(w, sender, newCID, newCapabilityTags) ==
    IF ~w.id.agents[sender].isRegistered THEN Reverted(w, <<"AgentNotRegistered", sender>>)
    ELSE IF ~validCID(newCID) THEN Reverted(w, <<"InvalidCID">>)
    ELSE LET removed == _removeAllCapabilities(w.id, sender)
             updated == [removed EXCEPT !.agents[sender].agentCardCID = newCID]
         IN  [world |-> [w EXCEPT !.id = _addCapabilities(updated, sender, newCapabilityTags)],
              result |-> OK]

postReputationOn(w, sender, targetAgent, rating, comment, proofCID) ==
    IF targetAgent = ZERO THEN Reverted(w, <<"InvalidTargetAgent">>)
    ELSE IF targetAgent = sender THEN Reverted(w, <<"CannotRateSelf">>)
    ELSE IF ~validRating(rating) THEN Reverted(w, <<"InvalidRating", rating>>)
    ELSE LET lastRating == w.lastRatingTime[sender][targetAgent]
         IN  IF lastRating # 0 /\ block_timestamp < lastRating + RATE_LIMIT_PERIOD
             THEN Reverted(w, <<"RateLimitExceeded", sender, targetAgent,
                                lastRating + RATE_LIMIT_PERIOD>>)
             ELSE [world |->
                      [w EXCEPT
                         !.lastRatingTime[sender][targetAgent] = block_timestamp,
                         !.agentRatings[targetAgent] =
                             Append(@, [rating |-> rating, comment |-> comment,
                                        proofCID |-> proofCID,
                                        timestamp |-> block_timestamp, rater |-> sender]),
                         !.agentReputations[targetAgent] = AddRating(@, rating),
                         !.hasBeenRated[targetAgent] = TRUE,
                         !.ratedAgents = IF w.hasBeenRated[targetAgent] THEN @
                                         ELSE Append(@, targetAgent)],
                   result |-> OK]

\* A call record applied to a storage.
ApplyOn(w, c) ==
    CASE c.op = "registerAgent" -> registerAgentOn(w, c.sender, c.cid, c.tags)
      [] c.op = "updateAgentCard" -> updateAgentCardOn(w, c.sender, c.cid, c.tags)
      [] c.op = "postReputation" ->
             postReputationOn(w, c.sender, c.targetAgent, c.rating, c.comment, c.proofCID)

\* ----------------------------------------------------------- requester agent
\* The deepest nesting of calls the stack holds.
MaxStack == 3

\* What a handler leaves: state.data, what it did outside, and how it ended.
Returned(data, done) == [data |-> data, effects |-> done, outcome |-> "returned"]
RangeError(data) == [data |-> data, effects |-> <<>>, outcome |-> "RangeError"]

\* HTTP statuses a provider answers with.
Statuses == {200, 204, 402, 500}

\* REPUTATION_POST.handler of the erc8004 plugin.
REPUTATION_POST_handler(data) ==
    IF ~config.erc8004 THEN Returned(data, <<>>)
    ELSE LET targetAgent == data.selectedAgent.address
             rating == IF data.rating # 0 THEN data.rating ELSE 5
             comment == IF data.comment # "" THEN data.comment ELSE "Excellent service"
             proofCID == data.resultCID
         IN  IF targetAgent = "" THEN Returned(data, <<>>)
             ELSE Returned(data, << [do |-> "writeContract", functionName |-> "postReputation",
                                     args |-> <<targetAgent, rating, comment, proofCID>>] >>)

\* reputationAction.handler of startRequesterAgent, and the handler it calls:
\* erc8004Actions.REPUTATION_POST.handler, read when it runs.
RECURSIVE reputationAction_handler(_, _)
reputationAction_handler(data, depth) ==
    IF depth > MaxStack THEN RangeError(data)
    ELSE LET rated == IF data.resultCID # ""
                      THEN [data EXCEPT !.rating = 5, !.comment = "Excellent service"]
                      ELSE data
         IN  IF env.BASE_RPC_URL /\ env.PRIVATE_KEY
             THEN IF actions.REPUTATION_POST = "plugin" THEN REPUTATION_POST_handler(rated)
                  ELSE reputationAction_handler(rated, depth + 1)
             ELSE Returned(rated, <<>>)

\* Mutant: the payment is retried whatever the first answer was.
PAYMENT_REQUEST_handler_alwaysPaid(data, first, signed, paid) ==
    IF ~config.x402 THEN Returned(data, <<>>)
    ELSE IF data.providerEndpoint = "" \/ data.inputCID = "" THEN Returned(data, <<>>)
    ELSE LET request == [do |-> "post", url |-> data.providerEndpoint,
                         inputCID |-> data.inputCID, payment |-> FALSE]
             answer == [do |-> "response", status |-> first]
             retry == [request EXCEPT !.payment = TRUE]
             paidAnswer == [do |-> "response", status |-> paid]
             record == [do |-> "resultCID"]
         IN  IF ~signed THEN Returned(data, <<request, answer>>)
             ELSE IF paid \notin {200, 204}
             THEN Returned(data, <<request, answer, [do |-> "sign"], retry, paidAnswer>>)
             ELSE Returned([data EXCEPT !.resultCID = "cidR"],
                           <<request, answer, [do |-> "sign"], retry, paidAnswer, record>>)

\* PAYMENT_REQUEST.handler of the x402 plugin. first is the status of the answer
\* to the request, paid that of the answer to the paid request; signed tells
\* whether signX402Payment returned.
PAYMENT_REQUEST_handler(data, first, signed, paid) ==
    IF ~config.x402 THEN Returned(data, <<>>)
    ELSE IF data.providerEndpoint = "" \/ data.inputCID = "" THEN Returned(data, <<>>)
    ELSE LET request == [do |-> "post", url |-> data.providerEndpoint,
                         inputCID |-> data.inputCID, payment |-> FALSE]
             answer == [do |-> "response", status |-> first]
             retry == [request EXCEPT !.payment = TRUE]
             paidAnswer == [do |-> "response", status |-> paid]
             record == [do |-> "resultCID"]
         IN  IF first = 402
             THEN IF ~signed THEN Returned(data, <<request, answer, [do |-> "sign"]>>)
                  ELSE IF paid \notin {200, 204}
                  THEN Returned(data, <<request, answer, [do |-> "sign"], retry, paidAnswer>>)
                  ELSE IF paid = 200
                  THEN Returned([data EXCEPT !.resultCID = "cidR"],
                                <<request, answer, [do |-> "sign"], retry, paidAnswer, record>>)
                  ELSE Returned(data, <<request, answer, [do |-> "sign"], retry, paidAnswer>>)
             ELSE IF first = 200
             THEN Returned([data EXCEPT !.resultCID = "cidR"], <<request, answer, record>>)
             ELSE Returned(data, <<request, answer>>)

\* paymentAction.handler of startRequesterAgent, and the handler it calls:
\* x402Actions.PAYMENT_REQUEST.handler, read when it runs.
RECURSIVE paymentAction_handler(_, _, _, _, _)
paymentAction_handler(data, first, signed, paid, depth) ==
    IF depth > MaxStack THEN RangeError(data)
    ELSE IF data.providerEndpoint = "" \/ data.inputCID = "" THEN Returned(data, <<>>)
    ELSE IF env.X402_FACILITATOR_URL /\ env.PRIVATE_KEY
    THEN IF actions.PAYMENT_REQUEST = "plugin"
         THEN PAYMENT_REQUEST_handler(data, first, signed, paid)
         ELSE paymentAction_handler(data, first, signed, paid, depth + 1)
    ELSE Returned(data, <<>>)

\* AGENT_DISCOVER.handler of the erc8004 plugin: found is the address of the
\* best agent the registry answered with, "" when it answered with none or the
\* query failed.
AGENT_DISCOVER_handler(data, found) ==
    IF ~config.erc8004 \/ found = "" THEN Returned(data, <<>>)
    ELSE Returned([data EXCEPT !.selectedAgent =
                      [address |-> found, agentCardCID |-> "cid1", endpoint |-> ""]],
                  << [do |-> "readContract", functionName |-> "discoverAgents"] >>)

\* discoverAction.handler of startRequesterAgent; card tells whether the agent
\* card could be retrieved.
RECURSIVE discoverAction_handler(_, _, _, _)
discoverAction_handler(data, found, card, depth) ==
    IF depth > MaxStack THEN RangeError(data)
    ELSE IF env.BASE_RPC_URL /\ env.PRIVATE_KEY
    THEN LET inner == IF actions.AGENT_DISCOVER = "plugin"
                      THEN AGENT_DISCOVER_handler(data, found)
                      ELSE discoverAction_handler(data, found, card, depth + 1)
         IN  IF inner.outcome = "RangeError" THEN inner
             ELSE IF inner.data.selectedAgent.agentCardCID # "" /\ card
             THEN Returned([inner.data EXCEPT !.selectedAgent.endpoint = "http://b/analyze"],
                           Append(inner.effects, [do |-> "retrieve"]))
             ELSE inner
    ELSE Returned(data, <<>>)

\* The handler of ANTIPHON_AT_PLAY; uploaded tells whether the upload succeeded.
ANTIPHON_AT_PLAY_handler(data, uploaded) ==
    IF ~uploaded THEN Returned(data, <<>>)
    ELSE LET input == [data EXCEPT !.inputCID = "cidIn"]
         IN  IF data.selectedAgent.endpoint # ""
             THEN Returned([input EXCEPT !.providerEndpoint = data.selectedAgent.endpoint],
                           << [do |-> "upload"] >>)
             ELSE Returned(input, << [do |-> "upload"] >>)

\* The handler of RESULT_RETRIEVE.
RESULT_RETRIEVE_handler(data) ==
    IF data.resultCID = "" THEN Returned(data, <<>>)
    ELSE Returned(data, << [do |-> "retrieve"] >>)

\* ----------------------------------------------------------- specification
\* state.data with no field set ("" and 0 stand for undefined).
NoData ==
    [selectedAgent |-> [address |-> "", agentCardCID |-> "", endpoint |-> ""],
     inputCID |-> "", providerEndpoint |-> "", resultCID |-> "", rating |-> 0, comment |-> ""]

\* The plugins as loaded: nothing configured, every action with the handler its
\* plugin defines.
PluginsLoaded ==
    /\ config = [erc8004 |-> FALSE, x402 |-> FALSE]
    /\ actions = [AGENT_REGISTER |-> "plugin", AGENT_DISCOVER |-> "plugin",
                  PAYMENT_REQUEST |-> "plugin", REPUTATION_POST |-> "plugin"]

\* No agent process runs.
AgentsOff ==
    /\ env = [BASE_RPC_URL |-> FALSE, PRIVATE_KEY |-> FALSE, X402_FACILITATOR_URL |-> FALSE,
              PAY_TO_ADDRESS |-> FALSE]
    /\ PluginsLoaded
    /\ state_data = NoData
    /\ effects = <<>>
    /\ pc = "off"
    /\ serverPort = 0
    /\ agentMode = "both"
    /\ ports = <<>>

\* Both registries as their constructors leave them.
Deployed ==
    /\ s_agents = [a \in Actors |->
                     [agentCardCID |-> "", capabilityTags |-> <<>>, isRegistered |-> FALSE]]
    /\ s_capabilityToAgents = [t \in Tags |-> <<>>]
    /\ s_agentIndexInCapability = [t \in Tags |-> [a \in Actors |-> 0]]
    /\ s_agentHasCapability = [a \in Actors |-> [t \in Tags |-> FALSE]]
    /\ s_registeredAgents = <<>>
    /\ s_agentIndexInRegistry = [a \in Actors |-> 0]
    /\ s_agentReputations =
           [a \in Actors |-> [totalScore |-> 0, totalRatings |-> 0, ratingsCount |-> 0]]
    /\ s_agentRatings = [a \in Actors |-> <<>>]
    /\ s_lastRatingTime = [r \in Actors |-> [a \in Actors |-> 0]]
    /\ s_ratedAgents = <<>>
    /\ s_hasBeenRated = [a \in Actors |-> FALSE]
    /\ block_timestamp \in {0, 1}
    /\ call = [op |-> "constructor"]
    /\ result = OK

Init == Deployed /\ AgentsOff

\* The identity registry does not read the clock: its specifications start it at 1.
InitIdentity == Init /\ block_timestamp = 1

\* The records of a call of the identity registry: every argument, the card
\* reference alone, neither.
IdCall(op, sender, cid, tags) == [op |-> op, sender |-> sender, cid |-> cid, tags |-> tags]
CardCall(op, sender, cid) == [op |-> op, sender |-> sender, cid |-> cid]
ShortCall(op, sender) == [op |-> op, sender |-> sender]

\* Two senders, every card reference, short tag lists; the card reference recorded.
NextIdentity ==
    \/ \E a \in Callers, cid \in CIDs, tags \in CardTagLists :
          /\ registerAgent(a, cid, tags)
          /\ call' = CardCall("registerAgent", a, cid)
          /\ UNCHANGED <<block_timestamp, offChain>>
    \/ \E a \in Callers, cid \in CIDs, tags \in CardTagLists :
          /\ updateAgentCard(a, cid, tags)
          /\ call' = CardCall("updateAgentCard", a, cid)
          /\ UNCHANGED <<block_timestamp, offChain>>

SpecIdentity == InitIdentity /\ [][NextIdentity]_vars

\* Two senders, registration with one card reference, updates to two, short tag
\* lists; every argument recorded.
NextUpdate ==
    \/ \E a \in Callers, tags \in CardTagLists :
          /\ registerAgent(a, "cid1", tags)
          /\ call' = IdCall("registerAgent", a, "cid1", tags)
          /\ UNCHANGED <<block_timestamp, offChain>>
    \/ \E a \in Callers, cid \in CIDs \ {""}, tags \in CardTagLists :
          /\ updateAgentCard(a, cid, tags)
          /\ call' = IdCall("updateAgentCard", a, cid, tags)
          /\ UNCHANGED <<block_timestamp, offChain>>

SpecUpdate == InitIdentity /\ [][NextUpdate]_vars

\* The record of an updateAgentCard call with the tags its sender held before it.
UpdateCall(sender, cid, tags, held) ==
    [op |-> "updateAgentCard", sender |-> sender, cid |-> cid, tags |-> tags, held |-> held]

\* Two senders, one card reference, short tag lists; every argument recorded,
\* and for an update the tags held before it.
NextOrder ==
    \/ \E a \in Callers, tags \in CardTagLists :
          /\ registerAgent(a, "cid1", tags)
          /\ call' = IdCall("registerAgent", a, "cid1", tags)
          /\ UNCHANGED <<block_timestamp, offChain>>
    \/ \E a \in Callers, tags \in CardTagLists :
          /\ updateAgentCard(a, "cid1", tags)
          /\ call' = UpdateCall(a, "cid1", tags, s_agents[a].capabilityTags)
          /\ UNCHANGED <<block_timestamp, offChain>>

SpecOrder == InitIdentity /\ [][NextOrder]_vars

\* Two senders, one card reference, short tag lists, and the views; the third
\* address never has a record.
NextViews ==
    \/ \E a \in Callers, tags \in CardTagLists :
          /\ registerAgent(a, "cid1", tags)
          /\ call' = ShortCall("registerAgent", a)
          /\ UNCHANGED <<block_timestamp, offChain>>
    \/ \E a \in Callers, tags \in CardTagLists :
          /\ updateAgentCard(a, "cid1", tags)
          /\ call' = ShortCall("updateAgentCard", a)
          /\ UNCHANGED <<block_timestamp, offChain>>
    \/ \E c \in IdentityViewCalls : IdentityView(c)

SpecViews == InitIdentity /\ [][NextViews]_vars

\* Three senders that register with one card reference and update to another,
\* short tag lists; the operation recorded.
NextDiscover ==
    \/ \E a \in Actors, tags \in CardTagLists :
          /\ registerAgent(a, "cid1", tags)
          /\ call' = [op |-> "registerAgent"]
          /\ UNCHANGED <<block_timestamp, offChain>>
    \/ \E a \in Actors, tags \in CardTagLists :
          /\ updateAgentCard(a, "cid2", tags)
          /\ call' = [op |-> "updateAgentCard"]
          /\ UNCHANGED <<block_timestamp, offChain>>

SpecDiscover == InitIdentity /\ [][NextDiscover]_vars

\* Two senders, one card reference, long tag lists; every argument recorded.
NextTags ==
    \/ \E a \in Callers, tags \in TagLists :
          /\ registerAgent(a, "cid1", tags)
          /\ call' = IdCall("registerAgent", a, "cid1", tags)
          /\ UNCHANGED <<block_timestamp, offChain>>
    \/ \E a \in Callers, tags \in TagLists :
          /\ updateAgentCard(a, "cid1", tags)
          /\ call' = IdCall("updateAgentCard", a, "cid1", tags)
          /\ UNCHANGED <<block_timestamp, offChain>>

SpecTags == InitIdentity /\ [][NextTags]_vars

\* Three senders, short tag lists; the operation and the sender recorded.
NextIndex ==
    \/ \E a \in Actors, cid \in IndexCIDs, tags \in CardTagLists :
          /\ registerAgent(a, cid, tags)
          /\ call' = ShortCall("registerAgent", a)
          /\ UNCHANGED <<block_timestamp, offChain>>
    \/ \E a \in Actors, cid \in IndexCIDs, tags \in CardTagLists :
          /\ updateAgentCard(a, cid, tags)
          /\ call' = ShortCall("updateAgentCard", a)
          /\ UNCHANGED <<block_timestamp, offChain>>

SpecIndex == InitIdentity /\ [][NextIndex]_vars

\* The record of a call of the reputation registry.
RepCall(sender, targetAgent, rating) ==
    [op |-> "postReputation", sender |-> sender, targetAgent |-> targetAgent, rating |-> rating]

\* A postReputation transaction with its arguments drawn from the given sets,
\* while the ledger stores at most cap ratings.
PostTx(senders, targets, ratings, texts, cap) ==
    \E a \in senders, target \in targets, rating \in ratings, text \in texts :
        /\ postReputation(a, target, rating, text[1], text[2])
        /\ RatingsStored(s_agentRatings') <= cap
        /\ call' = RepCall(a, target, rating)
        /\ UNCHANGED <<block_timestamp, offChain>>

\* Two raters, every target, the rating arguments at and beyond both limits.
NextReputation ==
    \/ PostTx(Callers, TargetArgs, {0, 1, 5, 6}, TextArgs, MaxRatings)
    \/ \E t \in ClockValues : Warp(t)

SpecReputation == Init /\ [][NextReputation]_vars

\* The record of a postReputation call with its texts.
PostCall(sender, targetAgent, rating, comment, proofCID) ==
    [op |-> "postReputation", sender |-> sender, targetAgent |-> targetAgent,
     rating |-> rating, comment |-> comment, proofCID |-> proofCID]

\* Two agents that rate each other with both limits of the rating and with an
\* empty comment or an empty proof reference; a clock of two values.
NextPost ==
    \/ \E a \in Callers, target \in Callers, rating \in {MIN_RATING, MAX_RATING},
          text \in PostTexts :
          /\ postReputation(a, target, rating, text[1], text[2])
          /\ RatingsStored(s_agentRatings') <= MaxPosts
          /\ call' = PostCall(a, target, rating, text[1], text[2])
          /\ UNCHANGED <<block_timestamp, offChain>>
    \/ \E t \in {1, RATE_LIMIT_PERIOD + 1} : Warp(t)

SpecPost == Init /\ [][NextPost]_vars

\* Calls of views of both registries, among them those that are refused.
QueryCalls ==
    {[op |-> "discoverAgents", capabilityTags |-> q] : q \in {<<>>, <<"x">>}}
    \cup {[op |-> "getRecentRatings", agent |-> "a2", limit |-> n] : n \in {0, 1}}
    \cup {[op |-> "getAgentCard", agent |-> "a1"]}

QueryResult(c) ==
    CASE c.op = "discoverAgents" -> discoverAgents(c.capabilityTags)
      [] c.op = "getRecentRatings" -> getRecentRatings(c.agent, c.limit)
      [] OTHER -> IdentityViewResult(c)

Query(c) ==
    /\ call' = c
    /\ result' = QueryResult(c)
    /\ UNCHANGED <<idVars, repVars, block_timestamp, offChain>>

\* Both registries: two senders; registrations and updates with a card reference
\* that may be empty; ratings with a target that may be null and a rating that
\* may be 0; views; a clock with a second inside the rate limit period.
NextAtomic ==
    \/ \E a \in Callers, cid \in IndexCIDs, tags \in AtomicTagLists :
          /\ registerAgent(a, cid, tags)
          /\ call' = ShortCall("registerAgent", a)
          /\ UNCHANGED <<block_timestamp, offChain>>
    \/ \E a \in Callers, cid \in IndexCIDs, tags \in AtomicTagLists :
          /\ updateAgentCard(a, cid, tags)
          /\ call' = ShortCall("updateAgentCard", a)
          /\ UNCHANGED <<block_timestamp, offChain>>
    \/ PostTx(Callers, {ZERO, "a1", "a2"}, {0, 1}, TextArgs, MaxAtomic)
    \/ \E c \in QueryCalls : Query(c)
    \/ \E t \in {1, 2, RATE_LIMIT_PERIOD + 1} : Warp(t)

SpecAtomic == Init /\ [][NextAtomic]_vars

\* Both registries with three agents: each registers, two of them update and
\* rate; tag lists of non-empty tags; the operation recorded; the clock stands.
NextParallel ==
    \/ \E a \in Actors, tags \in SharedTagLists :
          /\ registerAgent(a, "cid1", tags)
          /\ call' = [op |-> "registerAgent"]
          /\ UNCHANGED <<block_timestamp, offChain>>
    \/ \E a \in Callers, tags \in SharedTagLists :
          /\ updateAgentCard(a, "cid1", tags)
          /\ call' = [op |-> "updateAgentCard"]
          /\ UNCHANGED <<block_timestamp, offChain>>
    \/ \E a \in Callers, target \in Actors, text \in TextArgs :
          /\ postReputation(a, target, MAX_RATING, text[1], text[2])
          /\ RatingsStored(s_agentRatings') <= MaxParallel
          /\ call' = [op |-> "postReputation"]
          /\ UNCHANGED <<block_timestamp, offChain>>

SpecParallel == InitIdentity /\ [][NextParallel]_vars

\* Two raters, two targets, every rating argument, a clock of two values.
NextScore ==
    \/ PostTx(Callers, {"a2", "a3"}, RatingArgs, TextArgs, MaxScored)
    \/ \E t \in {1, RATE_LIMIT_PERIOD + 1} : Warp(t)

SpecScore == Init /\ [][NextScore]_vars

\* The state a host hands to a handler: each field set or not.
DataInputs ==
    {[NoData EXCEPT !.selectedAgent = [address |-> a, agentCardCID |-> "", endpoint |-> e],
                    !.inputCID = i, !.providerEndpoint = e, !.resultCID = r] :
        a \in {"", "a2"}, e \in {"", "http://b/analyze"}, i \in {"", "cidIn"},
        r \in {"", "cidR"}}

\* The account of PRIVATE_KEY.
RequesterAccount == "a1"

\* A step of the agents that sends no transaction.
OffChainStep == UNCHANGED <<idVars, repVars, block_timestamp, call, result>>

\* A handler has run: its state.data and what it did are kept.
Ran(r) ==
    /\ state_data' = r.data
    /\ effects' = r.effects
    /\ UNCHANGED <<env, config, actions, pc, serverPort, agentMode, ports>>

initializeERC8004 ==
    /\ ~config.erc8004
    /\ config' = [config EXCEPT !.erc8004 = TRUE]
    /\ UNCHANGED <<env, actions, state_data, effects, pc, serverPort, agentMode, ports>>
    /\ OffChainStep

initializeX402 ==
    /\ ~config.x402
    /\ config' = [config EXCEPT !.x402 = TRUE]
    /\ UNCHANGED <<env, actions, state_data, effects, pc, serverPort, agentMode, ports>>
    /\ OffChainStep

\* startRequesterAgent: the plugins are configured from process.env, and the
\* handlers of three of their actions are replaced.
startRequesterAgent ==
    /\ pc = "loaded"
    /\ pc' = "requester"
    /\ config' = [erc8004 |-> config.erc8004 \/ (env.BASE_RPC_URL /\ env.PRIVATE_KEY),
                  x402 |-> config.x402 \/ (env.X402_FACILITATOR_URL /\ env.PRIVATE_KEY)]
    /\ actions' = [actions EXCEPT !.AGENT_DISCOVER = "requester",
                                  !.PAYMENT_REQUEST = "requester",
                                  !.REPUTATION_POST = "requester"]
    /\ UNCHANGED <<env, state_data, effects, serverPort, agentMode, ports>>
    /\ OffChainStep

\* A host composes the state of the next message.
ComposeState ==
    /\ \E d \in DataInputs : state_data' = d
    /\ effects' = <<>>
    /\ UNCHANGED <<env, config, actions, pc, serverPort, agentMode, ports>>
    /\ OffChainStep

\* The action REPUTATION_POST is invoked; a transaction it submits is executed.
REPUTATION_POST ==
    \E r \in {IF actions.REPUTATION_POST = "plugin" THEN REPUTATION_POST_handler(state_data)
               ELSE reputationAction_handler(state_data, 1)} :
        /\ Ran(r)
        /\ IF r.effects = <<>> THEN OffChainStep
           ELSE \E args \in {r.effects[1].args} :
                    /\ postReputation(RequesterAccount, args[1], args[2], args[3], args[4])
                    /\ call' = PostCall(RequesterAccount, args[1], args[2], args[3], args[4])
                    /\ UNCHANGED block_timestamp

\* The action PAYMENT_REQUEST is invoked; the provider answers.
PAYMENT_REQUEST ==
    \E first \in Statuses, signed \in BOOLEAN, paid \in Statuses :
        /\ Ran(IF actions.PAYMENT_REQUEST = "plugin"
               THEN PAYMENT_REQUEST_handler(state_data, first, signed, paid)
               ELSE paymentAction_handler(state_data, first, signed, paid, 1))
        /\ OffChainStep

\* The action AGENT_DISCOVER is invoked; the registry answers.
AGENT_DISCOVER ==
    \E found \in {"", "a2", "a3"}, card \in BOOLEAN :
        /\ Ran(IF actions.AGENT_DISCOVER = "plugin" THEN AGENT_DISCOVER_handler(state_data, found)
               ELSE discoverAction_handler(state_data, found, card, 1))
        /\ OffChainStep

\* The actions startRequesterAgent defines itself.
ANTIPHON_AT_PLAY ==
    /\ pc = "requester"
    /\ \E uploaded \in BOOLEAN : Ran(ANTIPHON_AT_PLAY_handler(state_data, uploaded))
    /\ OffChainStep

RESULT_RETRIEVE ==
    /\ pc = "requester"
    /\ Ran(RESULT_RETRIEVE_handler(state_data))
    /\ OffChainStep

\* The requester: the plugins loaded, process.env with each setting present or
\* not; a host configures the plugins and invokes their actions, before and
\* after startRequesterAgent.
InitRequester ==
    /\ Deployed
    /\ block_timestamp = 1
    /\ env \in [{"BASE_RPC_URL", "PRIVATE_KEY", "X402_FACILITATOR_URL", "PAY_TO_ADDRESS"}
                  -> BOOLEAN]
    /\ env.PRIVATE_KEY
    /\ ~env.PAY_TO_ADDRESS
    /\ PluginsLoaded
    /\ state_data = NoData
    /\ effects = <<>>
    /\ pc = "loaded"
    /\ serverPort = 0
    /\ agentMode = "requester"
    /\ ports = <<>>

NextRequester ==
    \/ initializeERC8004
    \/ initializeX402
    \/ startRequesterAgent
    \/ ComposeState
    \/ REPUTATION_POST
    \/ PAYMENT_REQUEST
    \/ AGENT_DISCOVER
    \/ ANTIPHON_AT_PLAY
    \/ RESULT_RETRIEVE

SpecRequester == InitRequester /\ [][NextRequester]_vars

\* ------------------------------------------------------------- startAgents
\* SERVER_PORT when the setting is absent.
SERVER_PORT == 3000
\* The ports whose state is chosen; every port above them is free.
MaxPorts == 3
ProbedPorts == SERVER_PORT..(SERVER_PORT + MaxPorts - 1)

\* What server.listen(port) of checkPortAvailable leads to: the event
\* "listening", or the event "error" with the code EADDRINUSE or another code.
ListenOutcome(port) == IF port \in DOMAIN ports THEN ports[port] ELSE "listening"

\* An effect is kept once, in the place of its first occurrence.
LoggedIn(log, e) == IF \E i \in 1..Len(log) : log[i] = e THEN log ELSE Append(log, e)
Logged(e) == LoggedIn(effects, e)

\* A step of startAgents that only moves on.
Goto(label) ==
    /\ pc' = label
    /\ UNCHANGED <<env, state_data, serverPort, agentMode, ports>>
    /\ OffChainStep

\* startAgents up to the first agent: getStorageClient returns or throws (the
\* catch of startAgents logs the error and the port search follows).
getStorageClient ==
    /\ pc = "startAgents"
    /\ \E thrown \in BOOLEAN :
           Goto(IF thrown THEN "checkPortAvailable"
                ELSE IF agentMode \in {"requester", "both"} THEN "startRequesterAgent"
                ELSE "startProviderAgent")
    /\ UNCHANGED <<config, actions, effects>>

\* startRequesterAgent called by startAgents: it returns, or throws before the
\* plugins are touched.
StartRequester ==
    /\ pc = "startRequesterAgent"
    /\ \E thrown \in BOOLEAN :
           IF thrown THEN Goto("checkPortAvailable") /\ UNCHANGED <<config, actions, effects>>
           ELSE /\ Goto(IF agentMode = "both" THEN "startProviderAgent"
                        ELSE "checkPortAvailable")
                /\ config' = [erc8004 |-> config.erc8004
                                           \/ (env.BASE_RPC_URL /\ env.PRIVATE_KEY),
                              x402 |-> config.x402
                                        \/ (env.X402_FACILITATOR_URL /\ env.PRIVATE_KEY)]
                /\ actions' = [actions EXCEPT !.AGENT_DISCOVER = "requester",
                                              !.PAYMENT_REQUEST = "requester",
                                              !.REPUTATION_POST = "requester"]
                /\ UNCHANGED effects

\* startProviderAgent up to the Express server: the plugins are configured, the
\* handler of AGENT_REGISTER is replaced, the actions are registered.
startProviderAgent ==
    /\ pc = "startProviderAgent"
    /\ \E thrown \in BOOLEAN :
           IF thrown THEN Goto("checkPortAvailable") /\ UNCHANGED <<config, actions, effects>>
           ELSE /\ Goto("startProviderExpressServer")
                /\ config' = [erc8004 |-> config.erc8004
                                           \/ (env.BASE_RPC_URL /\ env.PRIVATE_KEY),
                              x402 |-> config.x402 \/ env.X402_FACILITATOR_URL]
                /\ actions' = [actions EXCEPT !.AGENT_REGISTER = "provider"]
                /\ UNCHANGED effects

\* startProviderExpressServer: nothing without X402_FACILITATOR_URL and
\* PAY_TO_ADDRESS; otherwise app.listen, unless an import or the set-up throws.
startProviderExpressServer ==
    /\ pc = "startProviderExpressServer"
    /\ Goto("registerAction")
    /\ \E thrown \in BOOLEAN :
           effects' = IF env.X402_FACILITATOR_URL /\ env.PAY_TO_ADDRESS /\ ~thrown
                      THEN Logged([do |-> "listen", path |-> "/analyze"])
                      ELSE effects
    /\ UNCHANGED <<config, actions>>

\* registerAction.handler, called by startProviderAgent: the agent card is
\* uploaded; with BASE_RPC_URL and PRIVATE_KEY the handler
\* erc8004Actions.AGENT_REGISTER.handler, read at this moment, is called.
registerAction_handler ==
    /\ pc = "registerAction"
    /\ \E uploaded \in BOOLEAN :
           LET invoked == Logged([do |-> "AGENT_REGISTER"])
               carded == LoggedIn(invoked, [do |-> "upload"])
           IN  IF ~uploaded
               THEN Goto("checkPortAvailable") /\ effects' = invoked
               ELSE IF env.BASE_RPC_URL /\ env.PRIVATE_KEY
               THEN IF actions.AGENT_REGISTER = "plugin"
                    THEN /\ Goto("checkPortAvailable")
                         /\ effects' = LoggedIn(carded, [do |-> "writeContract"])
                    ELSE Goto("registerAction") /\ effects' = carded
               ELSE Goto("checkPortAvailable") /\ effects' = carded
    /\ UNCHANGED <<config, actions>>

\* One turn of the loop of startAgents around checkPortAvailable(serverPort).
checkPortAvailable ==
    /\ pc = "checkPortAvailable"
    /\ pc' = IF ListenOutcome(serverPort) = "listening" THEN "start"
             ELSE IF ListenOutcome(serverPort) = "EADDRINUSE" THEN "checkPortAvailable"
             ELSE "pending"
    /\ serverPort' = IF ListenOutcome(serverPort) = "EADDRINUSE" THEN serverPort + 1
                     ELSE serverPort
    /\ UNCHANGED <<env, config, actions, state_data, effects, agentMode, ports>>
    /\ OffChainStep

\* directClient.start(serverPort).
directClient_start ==
    /\ pc = "start"
    /\ Goto("started")
    /\ effects' = Logged([do |-> "start", port |-> serverPort])
    /\ UNCHANGED <<config, actions>>

\* The process as it starts: each setting present or not, each mode, each probed
\* port free, in use or refused for another reason.
InitStartup ==
    /\ Deployed
    /\ block_timestamp = 1
    /\ env \in [{"BASE_RPC_URL", "PRIVATE_KEY", "X402_FACILITATOR_URL", "PAY_TO_ADDRESS"}
                  -> BOOLEAN]
    /\ env.PRIVATE_KEY
    /\ env.X402_FACILITATOR_URL = env.PAY_TO_ADDRESS
    /\ PluginsLoaded
    /\ state_data = NoData
    /\ effects = <<>>
    /\ pc = "startAgents"
    /\ serverPort = SERVER_PORT
    /\ agentMode \in {"requester", "provider", "both"}
    /\ ports \in [ProbedPorts -> {"listening", "EADDRINUSE", "EACCES"}]

NextStartup ==
    \/ getStorageClient
    \/ StartRequester
    \/ startProviderAgent
    \/ startProviderExpressServer
    \/ registerAction_handler
    \/ checkPortAvailable
    \/ directClient_start

SpecStartup == InitStartup /\ [][NextStartup]_vars

\* The scheduler runs a step of the process whenever one can be taken.
SpecStartupFair == SpecStartup /\ WF_vars(NextStartup)

\* ------------------------------------------------------------- properties
Range(s) == {s[i] : i \in 1..Len(s)}

\* How often e occurs in s.
Count(s, e) == Cardinality({i \in 1..Len(s) : s[i] = e})

Last(s) == s[Len(s)]

\* The tags of a list without the empty ones, the first occurrence of each kept.
RECURSIVE Dedup(_)
Dedup(tags) ==
    IF tags = <<>> THEN <<>>
    ELSE LET front == SubSeq(tags, 1, Len(tags) - 1)
             tag == tags[Len(tags)]
         IN  IF tag = "" \/ tag \in Range(front) THEN Dedup(front)
             ELSE Append(Dedup(front), tag)

\* The sum of the values of a sequence of ratings.
RECURSIVE SumValues(_)
SumValues(ratings) ==
    IF ratings = <<>> THEN 0
    ELSE ratings[Len(ratings)].rating + SumValues(SubSeq(ratings, 1, Len(ratings) - 1))

\* The last transaction was this operation of the identity registry.
Called(op) == call.op = op
Succeeded == result = OK

\* C1: for every agent A and tag T, A occurs in getAgentsByCapability(T) exactly
\* when agentHasCapability(A, T), exactly when T is in A's stored tag list.
C1_CapabilityConsistency ==
    \A a \in Actors, t \in Tags :
        /\ (a \in Range(getAgentsByCapability(t))) <=> agentHasCapability(a, t)
        /\ agentHasCapability(a, t) <=> (t \in Range(s_agents[a].capabilityTags))

\* An update has taken its sender out of a tag two others hold, and put it into another.
C1_Witness ==
    /\ Called("updateAgentCard") /\ Succeeded
    /\ Len(getAgentsByCapability("x")) = 2
    /\ ~agentHasCapability(call.sender, "x")
    /\ agentHasCapability(call.sender, "y")

\* C2: for every agent, totalScore is 100 times the sum of the values of the
\* ratings stored for it, and totalRatings is the number of those ratings.
C2_AggregateConsistency ==
    \A a \in Actors :
        /\ s_agentReputations[a].totalScore = 100 * SumValues(s_agentRatings[a])
        /\ s_agentReputations[a].totalRatings = Len(s_agentRatings[a])

\* One agent holds two ratings of different values, and another agent holds one.
C2_Witness ==
    /\ Len(s_agentRatings["a3"]) = 2
    /\ s_agentRatings["a3"][1].rating # s_agentRatings["a3"][2].rating
    /\ Len(s_agentRatings["a2"]) = 1

\* Rater r has a rating stored for target t; the time of the last one.
HasRated(r, t) == \E i \in 1..Len(s_agentRatings[t]) : s_agentRatings[t][i].rater = r
LastRatedAt(r, t) ==
    LET i == CHOOSE k \in 1..Len(s_agentRatings[t]) :
                 /\ s_agentRatings[t][k].rater = r
                 /\ \A j \in (k + 1)..Len(s_agentRatings[t]) : s_agentRatings[t][j].rater # r
    IN  s_agentRatings[t][i].timestamp

\* A step that is a postReputation transaction of r on t with a valid rating.
ValidPostStep(r, t) ==
    /\ block_timestamp' = block_timestamp
    /\ call'.op = "postReputation"
    /\ call'.sender = r /\ call'.targetAgent = t
    /\ r # t
    /\ call'.rating \in 1..5

\* C3: when R's last successful rating of T was posted at t0, an otherwise valid
\* postReputation of R on T fails with RateLimitExceeded(R, T, t0 + 1 day) while
\* t0 <= now < t0 + 1 day, and succeeds from t0 + 1 day on.
C3_RateLimitEnforced ==
    [][\A r \in Actors, t \in Actors :
          (ValidPostStep(r, t) /\ HasRated(r, t)) =>
              LET t0 == LastRatedAt(r, t)
              IN  IF block_timestamp < t0 + RATE_LIMIT_PERIOD
                  THEN /\ result' = <<"RateLimitExceeded", r, t, t0 + RATE_LIMIT_PERIOD>>
                       /\ UNCHANGED repVars
                  ELSE /\ result' = OK
                       /\ Len(s_agentRatings'[t]) = Len(s_agentRatings[t]) + 1]_vars

\* The same for every t0 but the clock value 0.
C3_RateLimitEnforcedAfterZero ==
    [][\A r \in Actors, t \in Actors :
          (ValidPostStep(r, t) /\ HasRated(r, t) /\ LastRatedAt(r, t) # 0) =>
              LET t0 == LastRatedAt(r, t)
              IN  IF block_timestamp < t0 + RATE_LIMIT_PERIOD
                  THEN /\ result' = <<"RateLimitExceeded", r, t, t0 + RATE_LIMIT_PERIOD>>
                       /\ UNCHANGED repVars
                  ELSE /\ result' = OK
                       /\ Len(s_agentRatings'[t]) = Len(s_agentRatings[t]) + 1]_vars

\* C4: getReputationScore(agent) is (floor(100 * S / n), n) for the n > 0 ratings
\* stored for the agent, of sum S, and (0, 0) when none is stored.
C4_ScoreIsAverage ==
    \A a \in Actors :
        LET n == Len(s_agentRatings[a])
            S == SumValues(s_agentRatings[a])
        IN  getReputationScore(a) = IF n = 0 THEN <<0, 0>> ELSE <<(100 * S) \div n, n>>

\* An agent holds three ratings whose average is truncated, another holds none.
C4_Witness ==
    /\ Len(s_agentRatings["a3"]) = 3
    /\ (100 * SumValues(s_agentRatings["a3"])) % 3 # 0
    /\ getReputationScore("a1") = <<0, 0>>

\* C5: the score of every agent with totalRatings > 0 is at least 100 and at most 500.
C5_ScoreWithinBounds ==
    \A a \in Actors :
        getReputationScore(a)[2] > 0 =>
            (getReputationScore(a)[1] >= 100 /\ getReputationScore(a)[1] <= 500)

\* Both bounds are met, after a rating beyond each limit was rejected.
C5_Witness ==
    /\ getReputationScore("a3") = <<500, 2>>
    /\ getReputationScore("a2") = <<100, 1>>
    /\ result[1] = "InvalidRating"

\* C6 as stated: registerAgent by an address that has a record fails with
\* AlreadyRegistered for every cardReference and every capabilityTags, and leaves
\* the identity registry unchanged.
C6_AlreadyRegisteredForEveryReference ==
    [][(call'.op = "registerAgent" /\ isAgentRegistered(call'.sender)) =>
          /\ result' = <<"AgentAlreadyRegistered", call'.sender>>
          /\ UNCHANGED idVars]_vars

\* C6 as amended: registerAgent by an address that has a record fails with
\* AlreadyRegistered for every non-empty cardReference and with InvalidReference
\* for the empty one, for every capabilityTags, and leaves the identity registry
\* unchanged.
C6_AlreadyRegistered ==
    [][(call'.op = "registerAgent" /\ isAgentRegistered(call'.sender)) =>
          /\ result' = IF call'.cid # "" THEN <<"AgentAlreadyRegistered", call'.sender>>
                       ELSE <<"InvalidCID">>
          /\ UNCHANGED idVars]_vars

\* A registered agent was refused a registration that differs from its record.
C6_Witness ==
    /\ Called("registerAgent")
    /\ result = <<"AgentAlreadyRegistered", call.sender>>
    /\ call.cid # s_agents[call.sender].agentCardCID
    /\ s_agents[call.sender].capabilityTags = <<"y", "x">>
    /\ Len(s_registeredAgents) = 2

\* C7 as stated: registerAgent and updateAgentCard with an empty card reference
\* fail with InvalidReference whoever the caller is, and store nothing.
C7_EmptyReferenceForEveryCaller ==
    [][(call'.op \in {"registerAgent", "updateAgentCard"} /\ call'.cid = "") =>
          /\ result' = <<"InvalidCID">>
          /\ UNCHANGED idVars]_vars

\* C7 as amended: with an empty card reference registerAgent fails with
\* InvalidReference whoever the caller is, updateAgentCard fails with
\* InvalidReference when the caller is registered and with NotRegistered when
\* it is not, and nothing is stored.
C7_EmptyReference ==
    [][(call'.op \in {"registerAgent", "updateAgentCard"} /\ call'.cid = "") =>
          /\ result' = IF call'.op = "updateAgentCard" /\ ~isAgentRegistered(call'.sender)
                       THEN <<"AgentNotRegistered", call'.sender>>
                       ELSE <<"InvalidCID">>
          /\ UNCHANGED idVars]_vars

\* A registered agent holding a tag was refused an update to the empty reference.
C7_Witness ==
    /\ Called("updateAgentCard")
    /\ call.cid = ""
    /\ result = <<"InvalidCID">>
    /\ s_agents[call.sender].capabilityTags # <<>>

\* C8: registerAgent(ref, tags) by a caller without a record and with a non-empty
\* ref succeeds for every tags; afterwards the caller is registered, getAgentCard
\* returns ref, the caller is the last registered agent and the count has grown by 1.
C8_RegistrationSucceeds ==
    [][(call'.op = "registerAgent" /\ ~isAgentRegistered(call'.sender) /\ call'.cid # "") =>
          /\ result' = OK
          /\ (isAgentRegistered(call.sender))'
          /\ (getAgentCard(call.sender))' = [value |-> call'.cid]
          /\ getRegisteredAgentsCount' = getRegisteredAgentsCount + 1
          /\ (Last(getAllRegisteredAgents))' = call'.sender]_vars

\* The second agent has registered, with two tags and the second card reference.
C8_Witness ==
    /\ Called("registerAgent") /\ Succeeded
    /\ getRegisteredAgentsCount = 2
    /\ getAllRegisteredAgents[2] = call.sender
    /\ getAgentCapabilities(call.sender) = [value |-> <<"y", "x">>]
    /\ getAgentCard(call.sender) = [value |-> "cid2"]

\* C9: after a successful registerAgent or updateAgentCard the capabilities of the
\* caller are the tags of the argument without the empty ones, the first occurrence
\* of each kept, in input order; the caller is listed exactly once under each of
\* them; and no agent ever holds the empty tag.
C9_DedupSkipEmpty ==
    /\ (call.op \in {"registerAgent", "updateAgentCard"} /\ Succeeded) =>
          /\ getAgentCapabilities(call.sender) = [value |-> Dedup(call.tags)]
          /\ \A t \in Range(Dedup(call.tags)) :
                 Count(getAgentsByCapability(t), call.sender) = 1
    /\ \A a \in Actors :
          /\ "" \notin Range(s_agents[a].capabilityTags)
          /\ ~agentHasCapability(a, "")
          /\ a \notin Range(getAgentsByCapability(""))

\* An agent registered with [x, x, y] beside an agent that holds x.
C9_Witness ==
    /\ Called("registerAgent") /\ Succeeded
    /\ call.tags = <<"x", "x", "y">>
    /\ getAgentCapabilities(call.sender) = [value |-> <<"x", "y">>]
    /\ Len(getAgentsByCapability("x")) = 2

\* C10: after a successful updateAgentCard(newCid, newTags) of agent A,
\* getAgentCard(A) is newCid, A is registered, A is absent from the index of every
\* tag it held before that is not among newTags, with agentHasCapability false,
\* and present for every non-empty tag of newTags.
C10_UpdateRoundTrip ==
    [][(call'.op = "updateAgentCard" /\ result' = OK) =>
          /\ (getAgentCard(call.sender))' = [value |-> call'.cid]
          /\ (isAgentRegistered(call.sender))'
          /\ \A t \in Range(s_agents[call'.sender].capabilityTags) \ Range(call'.tags) :
                 /\ (call.sender \notin Range(getAgentsByCapability(t)))'
                 /\ (~agentHasCapability(call.sender, t))'
          /\ \A t \in Range(call'.tags) \ {""} :
                 /\ (call.sender \in Range(getAgentsByCapability(t)))'
                 /\ (agentHasCapability(call.sender, t))']_vars

\* An agent was updated to another reference and to the tag y alone, while the
\* other agent holds x and y.
C10_Witness ==
    /\ Called("updateAgentCard") /\ Succeeded
    /\ call.cid = "cid2" /\ call.tags = <<"y">>
    /\ Len(getAgentsByCapability("x")) = 1
    /\ Len(getAgentsByCapability("y")) = 2
    /\ call.sender = getAgentsByCapability("y")[2]

\* C11: updateAgentCard by an address without a record fails with NotRegistered
\* for every argument, and leaves the records, the registered agents array and
\* the capability index as they were.
C11_UpdateNeedsRecord ==
    [][(call'.op = "updateAgentCard" /\ ~isAgentRegistered(call'.sender)) =>
          /\ result' = <<"AgentNotRegistered", call'.sender>>
          /\ UNCHANGED idVars]_vars

\* An address without a record was refused an update with the empty reference,
\* beside a registered agent that holds two tags.
C11_Witness ==
    /\ Called("updateAgentCard")
    /\ call.cid = ""
    /\ result = <<"AgentNotRegistered", call.sender>>
    /\ ~isAgentRegistered(call.sender)
    /\ getRegisteredAgentsCount = 1
    /\ Len(s_agents[getAllRegisteredAgents[1]].capabilityTags) = 2

\* C12: a successful updateAgentCard emits CapabilityRemoved once for every tag
\* the caller held, all of them before any CapabilityAdded, and a tag that is
\* both among the tags held and among newTags is held by the caller afterwards,
\* with exactly one entry for the caller in the index of that tag.
C12_RemoveBeforeAdd ==
    [][(call'.op = "updateAgentCard" /\ result' = OK) =>
          \A log \in {UpdateAgentCardEvents(call'.sender, call'.cid, call'.tags)},
             held \in {Range(s_agents[call'.sender].capabilityTags)} :
              /\ \A i, j \in 1..Len(log) :
                     (log[i][1] = "CapabilityRemoved" /\ log[j][1] = "CapabilityAdded") => i < j
              /\ \A t \in held : Count(log, <<"CapabilityRemoved", call'.sender, t>>) = 1
              /\ \A t \in held \cap Range(call'.tags) :
                     /\ Count(log, <<"CapabilityAdded", call'.sender, t>>) = 1
                     /\ (agentHasCapability(call.sender, t))'
                     /\ (Count(s_agents[call.sender].capabilityTags, t))' = 1
                     /\ (Count(getAgentsByCapability(t), call.sender))' = 1]_vars

\* An agent that held [x, y] was updated to [y, x] while the other agent holds both tags.
C12_Witness ==
    /\ Called("updateAgentCard") /\ Succeeded
    /\ call.held = <<"x", "y">>
    /\ call.tags = <<"y", "x">>
    /\ getAgentCapabilities(call.sender) = [value |-> <<"y", "x">>]
    /\ Len(getAgentsByCapability("x")) = 2
    /\ Len(getAgentsByCapability("y")) = 2

\* The index lists of the tags of a query, one after the other.
RECURSIVE IndexLists(_)
IndexLists(q) ==
    IF q = <<>> THEN <<>>
    ELSE IndexLists(SubSeq(q, 1, Len(q) - 1)) \o getAgentsByCapability(q[Len(q)])

\* A sequence with the first occurrence of each element kept.
RECURSIVE KeepFirst(_)
KeepFirst(s) ==
    IF s = <<>> THEN <<>>
    ELSE LET front == SubSeq(s, 1, Len(s) - 1)
         IN  IF s[Len(s)] \in Range(front) THEN KeepFirst(front)
             ELSE Append(KeepFirst(front), s[Len(s)])

\* The agents that hold one of the tags of a query.
Holders(q) == {a \in Actors : \E t \in Range(q) : agentHasCapability(a, t)}

\* C13: for every non-empty query, the agents discoverAgents returns are the
\* index lists of the query tags from left to right with the first occurrence of
\* each agent kept: every holder of a queried tag once, nobody else; cids has the
\* same length, and cids[i] is getAgentCard(agents[i]).
C13_DiscoverUnion ==
    \A q \in QueryLists \ {<<>>} :
        \A found \in {discoverAgents(q)} :
            /\ "value" \in DOMAIN found
            /\ found.value.agents = KeepFirst(IndexLists(q))
            /\ Range(found.value.agents) = Holders(q)
            /\ \A a \in Holders(q) : Count(found.value.agents, a) = 1
            /\ Len(found.value.cids) = Len(found.value.agents)
            /\ \A i \in 1..Len(found.value.agents) :
                   getAgentCard(found.value.agents[i]) = [value |-> found.value.cids[i]]

\* Three agents are found by a query of two tags: two of them hold both tags,
\* the third holds the second only; their card references differ; and a query
\* that repeats a tag finds each holder once.
C13_Witness ==
    /\ discoverAgents(<<"x", "y">>).value.agents = <<"a2", "a1", "a3">>
    /\ discoverAgents(<<"x", "y">>).value.cids = <<"cid1", "cid2", "cid1">>
    /\ getAgentsByCapability("x") = <<"a2", "a1">>
    /\ Len(getAgentsByCapability("y")) = 3
    /\ discoverAgents(<<"y", "y">>).value.agents = getAgentsByCapability("y")
    /\ discoverAgents(<<"", "y">>).value.agents = getAgentsByCapability("y")

\* C14: discoverAgents fails with EmptyQuery for the empty query; for every
\* non-empty query it returns, and returns two empty sequences when no agent
\* holds a queried tag.
C14_EmptyQueryOnly ==
    /\ discoverAgents(<<>>) = [revert |-> <<"EmptyCapabilityTags">>]
    /\ \A q \in QueryLists \ {<<>>} :
           \A found \in {discoverAgents(q)} :
               /\ DOMAIN found = {"value"}
               /\ Holders(q) = {} => found = [value |-> [agents |-> <<>>, cids |-> <<>>]]

\* Two agents hold x and nobody holds y: the query [y], and the query of the
\* empty tag, find nobody; the empty query fails.
C14_Witness ==
    /\ Len(getAgentsByCapability("x")) = 2
    /\ getRegisteredAgentsCount = 3
    /\ getAgentsByCapability("y") = <<>>
    /\ discoverAgents(<<"y", "">>) = [value |-> [agents |-> <<>>, cids |-> <<>>]]
    /\ Len(discoverAgents(<<"y", "x">>).value.agents) = 2
    /\ "revert" \in DOMAIN discoverAgents(<<>>)

\* The agents that have registered, and the tags some agent holds.
Recorded == Range(getAllRegisteredAgents)
HeldTags == UNION {Range(s_agents[a].capabilityTags) : a \in Actors}

\* C15: getAgentCard and getAgentCapabilities fail with NotRegistered exactly for
\* the addresses without a record; the other views of the identity registry
\* return in every reachable state, with false, the empty list and zero for
\* addresses without a record and tags nobody holds; and no view changes the
\* state of a registry.
C15_ReadOnlyQueries ==
    /\ [](\A a \in Actors :
            /\ getAgentCard(a) =
                   IF a \in Recorded THEN [value |-> s_agents[a].agentCardCID]
                   ELSE [revert |-> <<"AgentNotRegistered", a>>]
            /\ getAgentCapabilities(a) =
                   IF a \in Recorded THEN [value |-> s_agents[a].capabilityTags]
                   ELSE [revert |-> <<"AgentNotRegistered", a>>]
            /\ a \notin Recorded =>
                   /\ isAgentRegistered(a) = FALSE
                   /\ \A t \in Tags : agentHasCapability(a, t) = FALSE)
    /\ [](\A t \in Tags \ HeldTags :
            /\ getAgentsByCapability(t) = <<>>
            /\ \A a \in Actors : agentHasCapability(a, t) = FALSE)
    /\ [](Recorded = {} => (getRegisteredAgentsCount = 0 /\ getAllRegisteredAgents = <<>>))
    /\ [][(call'.op \in {c.op : c \in IdentityViewCalls}) =>
             /\ UNCHANGED <<idVars, repVars>>
             /\ (call'.op \notin {"getAgentCard", "getAgentCapabilities"}) =>
                    DOMAIN result' = {"value"}]_vars

\* getAgentCapabilities was refused for the address that never registered, beside
\* two registered agents that hold x, while nobody holds y.
C15_Witness ==
    /\ Called("getAgentCapabilities")
    /\ call.agent = "a3"
    /\ result = [revert |-> <<"AgentNotRegistered", "a3">>]
    /\ getRegisteredAgentsCount = 2
    /\ Len(getAgentsByCapability("x")) = 2
    /\ getAgentsByCapability("y") = <<>>
    /\ getAgentCard("a1") = [value |-> "cid1"]

\* A step that is a postReputation transaction.
PostStep == call'.op = "postReputation" /\ block_timestamp' = block_timestamp

\* C16: postReputation fails with InvalidTarget for the null target, with
\* CannotRateSelf when the target is the caller, with InvalidRating(rating) when
\* the rating is outside [1,5]; when several conditions apply the error is the
\* first in the order target, self, rating, rate limit.
C16_ValidationOrder ==
    [][PostStep =>
          LET s == call'.sender
              t == call'.targetAgent
              r == call'.rating
          IN  /\ t = ZERO => result' = <<"InvalidTargetAgent">>
              /\ (t # ZERO /\ t = s) => result' = <<"CannotRateSelf">>
              /\ (t \notin {ZERO, s} /\ (r < 1 \/ r > 5)) => result' = <<"InvalidRating", r>>
              /\ (t \notin {ZERO, s} /\ r \in 1..5) =>
                     result'[1] \in {"ok", "RateLimitExceeded"}]_vars

\* A rating of 6 was rejected as invalid while the rate limit of the pair was active.
C16_Witness ==
    /\ call.op = "postReputation"
    /\ result = <<"InvalidRating", 6>>
    /\ call.targetAgent \in Actors
    /\ s_lastRatingTime[call.sender][call.targetAgent] # 0
    /\ block_timestamp < s_lastRatingTime[call.sender][call.targetAgent] + RATE_LIMIT_PERIOD

\* R has rated T less than a day ago.
ActiveLimit(r, t) == HasRated(r, t) /\ block_timestamp < LastRatedAt(r, t) + RATE_LIMIT_PERIOD

\* C17: a postReputation with a non-null target other than the caller, a rating
\* in [1,5] and no active rate limit for the pair succeeds; it appends one Rating
\* to the ratings of the target, with the arguments verbatim, the clock value and
\* the caller; it adds rating * 100 to totalScore and 1 to totalRatings of the
\* target; and it records the clock value as the last rating time of the pair.
C17_PostSucceeds ==
    [][\A r \in Actors, t \in Actors :
          (ValidPostStep(r, t) /\ ~ActiveLimit(r, t)) =>
              /\ result' = OK
              /\ s_agentRatings' =
                     [s_agentRatings EXCEPT ![t] =
                         Append(@, [rating |-> call'.rating, comment |-> call'.comment,
                                    proofCID |-> call'.proofCID,
                                    timestamp |-> block_timestamp, rater |-> r])]
              /\ s_agentReputations'[t].totalScore =
                     s_agentReputations[t].totalScore + call'.rating * 100
              /\ s_agentReputations'[t].totalRatings = s_agentReputations[t].totalRatings + 1
              /\ s_lastRatingTime'[r][t] = block_timestamp]_vars

\* A rater has rated the same target a second time, a day after the first, with
\* an empty comment.
C17_Witness ==
    /\ call.op = "postReputation" /\ Succeeded
    /\ call.comment = "" /\ call.proofCID = "proof"
    /\ Len(s_agentRatings[call.targetAgent]) = 2
    /\ s_agentRatings[call.targetAgent][1].rater = call.sender
    /\ s_agentRatings[call.targetAgent][1].proofCID = ""
    /\ s_agentRatings[call.targetAgent][2].timestamp = block_timestamp
    /\ s_lastRatingTime[call.sender][call.targetAgent] = RATE_LIMIT_PERIOD + 1

\* C18: a successful postReputation of R on T changes neither canRate nor the
\* last rating time of any other pair, and a postReputation fails with
\* RateLimitExceeded only for a pair whose rater has rated its target.
C18_LimitPerPair ==
    /\ [][\A r \in Actors, t \in Actors :
             (ValidPostStep(r, t) /\ result' = OK) =>
                 \A r2 \in Actors, t2 \in Actors :
                     (<<r2, t2>> # <<r, t>>) =>
                         /\ (canRate(r2, t2))' = canRate(r2, t2)
                         /\ s_lastRatingTime'[r2][t2] = s_lastRatingTime[r2][t2]]_vars
    /\ []((call.op = "postReputation" /\ result[1] = "RateLimitExceeded") =>
             HasRated(call.sender, call.targetAgent))

\* The second rater has rated a target in the second in which the first rater
\* rated it: the first rater is limited for that target, and for no other.
C18_Witness ==
    /\ call.op = "postReputation" /\ Succeeded
    /\ call.sender = "a2" /\ call.targetAgent = "a3"
    /\ s_lastRatingTime["a1"]["a3"] = block_timestamp
    /\ canRate("a1", "a3") = <<FALSE, block_timestamp + RATE_LIMIT_PERIOD>>
    /\ canRate("a2", "a3") = <<FALSE, block_timestamp + RATE_LIMIT_PERIOD>>
    /\ canRate("a1", "a2") = <<TRUE, 0>>

\* C19: canRate(R, T) is (true, 0) exactly when the rate limit does not reject a
\* postReputation of R on T; otherwise it is (false, n), where n is later than
\* the clock value and is the time RateLimitExceeded carries.
C19_CanRateMirrorsGate ==
    /\ [](\A r \in Actors, t \in Actors :
            IF rateLimitCheck(r, t) THEN canRate(r, t) = <<TRUE, 0>>
            ELSE /\ canRate(r, t)[1] = FALSE
                 /\ canRate(r, t)[2] > block_timestamp)
    /\ [][\A r \in Actors, t \in Actors :
             ValidPostStep(r, t) =>
                 IF canRate(r, t)[1] THEN result' = OK
                 ELSE result' = <<"RateLimitExceeded", r, t, canRate(r, t)[2]>>]_vars

\* A rating was rejected in the last second of the limit of its pair.
C19_Witness ==
    /\ call.op = "postReputation"
    /\ block_timestamp = RATE_LIMIT_PERIOD
    /\ result = <<"RateLimitExceeded", call.sender, call.targetAgent, RATE_LIMIT_PERIOD + 1>>
    /\ canRate(call.sender, call.targetAgent) = <<FALSE, RATE_LIMIT_PERIOD + 1>>

\* The step is a call that was rejected: a transaction with an error, a view
\* that reverts.
RejectedStep ==
    /\ block_timestamp' = block_timestamp
    /\ IF call'.op \in {"registerAgent", "updateAgentCard", "postReputation"}
       THEN result' # OK
       ELSE call'.op # "constructor" /\ "revert" \in DOMAIN result'

\* C20: every rejected call leaves the state of both registries unchanged; a
\* postReputation rejected with RateLimitExceeded leaves the last rating time,
\* and with it the next allowed time, as it was.
C20_FailureAtomicity ==
    [][RejectedStep =>
          /\ UNCHANGED <<idVars, repVars>>
          /\ (call'.op = "postReputation" /\ result'[1] = "RateLimitExceeded") =>
                 /\ result'[4] = s_lastRatingTime'[call'.sender][call'.targetAgent]
                                    + RATE_LIMIT_PERIOD
                 /\ (canRate(call.sender, call.targetAgent))' =
                        <<FALSE, LastRatedAt(call'.sender, call'.targetAgent)
                                   + RATE_LIMIT_PERIOD>>]_vars

\* A rating was rejected a second after the rating of its pair, beside a
\* registered agent, and the next allowed time is a day after the first rating.
C20_Witness ==
    /\ call.op = "postReputation"
    /\ block_timestamp = 2
    /\ result = <<"RateLimitExceeded", call.sender, call.targetAgent, 1 + RATE_LIMIT_PERIOD>>
    /\ s_lastRatingTime[call.sender][call.targetAgent] = 1
    /\ canRate(call.sender, call.targetAgent) = <<FALSE, 1 + RATE_LIMIT_PERIOD>>
    /\ getRegisteredAgentsCount = 1

\* s is a prefix of t.
IsPrefix(s, t) == Len(s) <= Len(t) /\ SubSeq(t, 1, Len(s)) = s

\* The limit arguments offered to getRecentRatings: up to one past the most
\* ratings an agent can hold.
LimitArgs == 0..(MaxScored + 1)

Min(a, b) == IF a < b THEN a ELSE b

\* C21: getRecentRatings(agent, limit) fails with InvalidLimit exactly when limit
\* is 0; for limit > 0 it returns min(limit, n) ratings, n = getRatingsCount(agent),
\* the i-th of them (from 0) being getAllRatings(agent)[n - 1 - i]; for an agent
\* without ratings it returns the empty sequence.
C21_RecentRatings ==
    \A a \in Actors, limit \in LimitArgs :
        \A got \in {getRecentRatings(a, limit)}, n \in {getRatingsCount(a)} :
            IF limit = 0 THEN got = [revert |-> <<"InvalidLimit">>]
            ELSE /\ DOMAIN got = {"value"}
                 /\ Len(got.value) = Min(limit, n)
                 /\ \A i \in 0..(Len(got.value) - 1) :
                        got.value[i + 1] = getAllRatings(a)[(n - 1 - i) + 1]
                 /\ n = 0 => got.value = <<>>

\* An agent holds three ratings of which the last two differ; the two most
\* recent are returned, the latest first; an agent without ratings has none.
C21_Witness ==
    /\ getRatingsCount("a3") = 3
    /\ getAllRatings("a3")[2] # getAllRatings("a3")[3]
    /\ getRecentRatings("a3", 2) =
           [value |-> <<getAllRatings("a3")[3], getAllRatings("a3")[2]>>]
    /\ getRecentRatings("a3", 4).value[3] = getAllRatings("a3")[1]
    /\ getRecentRatings("a1", 1) = [value |-> <<>>]

\* C22: across every step, getAllRatings(agent) before the step is a prefix of
\* getAllRatings(agent) after it, and getRatingsCount(agent) does not decrease.
C22_RatingsAppendOnly ==
    [][\A a \in Actors :
          /\ IsPrefix(getAllRatings(a), (getAllRatings(a))')
          /\ (getRatingsCount(a))' >= getRatingsCount(a)]_vars

\* A second rating was stored for an agent, a day after the first and with
\* another value.
C22_Witness ==
    /\ call.op = "postReputation" /\ Succeeded
    /\ getRatingsCount(call.targetAgent) = 2
    /\ getAllRatings(call.targetAgent)[1].timestamp < getAllRatings(call.targetAgent)[2].timestamp
    /\ getAllRatings(call.targetAgent)[1].rating # getAllRatings(call.targetAgent)[2].rating
    /\ getAllRatings(call.targetAgent)[2].rating = call.rating

\* C23: hasBeenRated(agent) is true exactly when getRatingsCount(agent) > 0, and
\* the agent is then listed once among the rated agents; once true it stays
\* true; a successful postReputation emits FirstRatingReceived for its target,
\* once, exactly when the target holds no rating yet, and for no other agent.
C23_FirstRatingOnce ==
    /\ [](\A a \in Actors :
            /\ hasBeenRated(a) <=> (getRatingsCount(a) > 0)
            /\ Count(s_ratedAgents, a) = IF getRatingsCount(a) > 0 THEN 1 ELSE 0)
    /\ [][\A a \in Actors : hasBeenRated(a) => (hasBeenRated(a))']_vars
    /\ [][(PostStep /\ result' = OK) =>
             \A log \in {PostReputationEvents(call'.sender, call'.targetAgent, call'.rating,
                                               call'.comment, call'.proofCID)} :
                 /\ Count(log, <<"FirstRatingReceived", call'.targetAgent>>) =
                        IF getRatingsCount(call'.targetAgent) = 0 THEN 1 ELSE 0
                 /\ \A i \in 1..Len(log) :
                        log[i][1] = "FirstRatingReceived" => log[i][2] = call'.targetAgent]_vars

\* An agent has been rated a second time: it is listed once among the rated
\* agents, and its rater is not.
C23_Witness ==
    /\ call.op = "postReputation" /\ Succeeded
    /\ getRatingsCount(call.targetAgent) = 2
    /\ s_ratedAgents = <<call.targetAgent>>
    /\ hasBeenRated(call.targetAgent)
    /\ ~hasBeenRated(call.sender)

\* The addresses for which isAgentRegistered is true.
RegisteredSet == {a \in Actors : isAgentRegistered(a)}

\* C24: a registered address stays registered; getAllRegisteredAgents changes
\* only by a successful registerAgent, which appends its caller; it lists each
\* registered address once and no other; getRegisteredAgentsCount is the number
\* of registered addresses.
C24_RegistryAppendOnly ==
    /\ [](/\ \A a \in Actors :
               Count(getAllRegisteredAgents, a) = IF isAgentRegistered(a) THEN 1 ELSE 0
          /\ getRegisteredAgentsCount = Cardinality(RegisteredSet))
    /\ [][/\ \A a \in Actors : isAgentRegistered(a) => (isAgentRegistered(a))'
          /\ IsPrefix(getAllRegisteredAgents, getAllRegisteredAgents')
          /\ getAllRegisteredAgents' =
                 IF call'.op = "registerAgent" /\ result' = OK
                    /\ ~isAgentRegistered(call'.sender)
                 THEN Append(getAllRegisteredAgents, call'.sender)
                 ELSE getAllRegisteredAgents]_vars

\* Three agents registered, the third address first, and one of them has
\* updated its card since.
C24_Witness ==
    /\ getAllRegisteredAgents = <<"a3", "a1", "a2">>
    /\ Called("updateAgentCard") /\ Succeeded
    /\ getRegisteredAgentsCount = 3

\* C25: every registered agent has a non-empty card reference.
C25_RegisteredCardNonEmpty ==
    \A a \in Actors : isAgentRegistered(a) => getAgentCard(a).value # ""

\* A registered agent that has updated its card keeps it when an update to the
\* empty reference is refused.
C25_Witness ==
    /\ Called("updateAgentCard")
    /\ call.cid = ""
    /\ result = <<"InvalidCID">>
    /\ getAgentCard(call.sender) = [value |-> "cid2"]
    /\ getRegisteredAgentsCount = 2

\* C26: a registerAgent or updateAgentCard of caller C changes neither the
\* record (registered flag, card reference, tag list) nor the memberships (flags
\* and index entries) of an agent other than C.
C26_CallerOnly ==
    [][(call'.op \in {"registerAgent", "updateAgentCard"}) =>
          /\ \A a \in Actors \ {call'.sender} :
                 /\ s_agents'[a] = s_agents[a]
                 /\ s_agentHasCapability'[a] = s_agentHasCapability[a]
          /\ \A t \in Tags :
                 Range(getAgentsByCapability(t)') \ {call'.sender} =
                     Range(getAgentsByCapability(t)) \ {call'.sender}]_vars

\* The first of three holders of a tag gave it up for another tag: the other
\* two are still listed, and hold what they held.
C26_Witness ==
    /\ Called("updateAgentCard") /\ Succeeded
    /\ getAllRegisteredAgents[1] = call.sender
    /\ Range(getAgentsByCapability("x")) = Actors \ {call.sender}
    /\ getAgentsByCapability("y") = <<call.sender>>
    /\ \A a \in Actors \ {call.sender} : s_agents[a].capabilityTags = <<"x">>

\* C29: for every tag T, getAgentsByCapability(T) holds no address twice, and
\* for every agent A in it the recorded position of A for T is an index of the
\* sequence, at which A stands.
C29_PositionMap ==
    \A t \in Tags :
        \A list \in {getAgentsByCapability(t)} :
            /\ \A i, j \in 1..Len(list) : list[i] = list[j] => i = j
            /\ \A a \in Range(list) :
                   /\ s_agentIndexInCapability[t][a] < Len(list)
                   /\ list[s_agentIndexInCapability[t][a] + 1] = a

\* After an update the three agents stand in two lists in different orders,
\* each at its recorded position.
C29_Witness ==
    /\ Called("updateAgentCard") /\ Succeeded
    /\ getAgentsByCapability("x") = <<"a3", "a2", "a1">>
    /\ getAgentsByCapability("y") = <<"a3", "a1">>
    /\ s_agentIndexInCapability["x"]["a1"] = 2
    /\ s_agentIndexInCapability["y"]["a3"] = 0

\* The position (from 1) of an agent in a list that holds it.
PositionIn(list, a) == CHOOSE k \in 1..Len(list) : list[k] = a

\* A list after the swap-and-pop removal of the agent at position i (from 1).
SwapAndPop(list, i) ==
    IF i = Len(list) THEN Pop(list) ELSE [Pop(list) EXCEPT ![i] = list[Len(list)]]

\* C30: when updateAgentCard removes agent A from the list of tag T, at position
\* i, the list becomes one shorter; when i is not the last position, the agent
\* that was last stands at i, with i as its recorded position, and every other
\* agent keeps its position; when A was last, only A is gone. (A tag named again
\* puts A at the end of the list afterwards.)
C30_SwapAndPop ==
    [][(call'.op = "updateAgentCard" /\ result' = OK) =>
          \A t \in Range(s_agents[call'.sender].capabilityTags) :
              \A list \in {getAgentsByCapability(t)} :
                  \A i \in {PositionIn(list, call'.sender)} :
                      /\ getAgentsByCapability(t)' =
                             IF s_agentHasCapability'[call'.sender][t]
                             THEN Append(SwapAndPop(list, i), call'.sender)
                             ELSE SwapAndPop(list, i)
                      /\ i # Len(list) =>
                             s_agentIndexInCapability'[t][list[Len(list)]] = i - 1]_vars

\* The first of three holders of a tag gave it up: the last holder stands first,
\* the second where it stood.
C30_Witness ==
    /\ Called("updateAgentCard") /\ Succeeded
    /\ call.sender = "a1"
    /\ getAllRegisteredAgents = <<"a1", "a2", "a3">>
    /\ getAgentsByCapability("x") = <<"a3", "a2">>
    /\ s_agentIndexInCapability["x"]["a3"] = 0
    /\ s_agentIndexInCapability["x"]["a2"] = 1
    /\ ~agentHasCapability("a1", "x")

\* What the views of both registries show of a storage.
Observe(w) ==
    [agents |-> w.id.agents,
     agentsByCapability |-> w.id.cap2agents,
     agentHasCapability |-> w.id.has,
     registeredAgents |-> w.registeredAgents,
     reputations |-> w.agentReputations,
     ratings |-> w.agentRatings,
     lastRatingTime |-> w.lastRatingTime,
     hasBeenRated |-> w.hasBeenRated]

\* The same, with the members of each list of agents in place of the list.
ObserveMembers(w) ==
    [Observe(w) EXCEPT
        !.agentsByCapability = [t \in Tags |-> Range(w.id.cap2agents[t])],
        !.registeredAgents = Range(w.registeredAgents)]

\* Pairs of calls that target different agents: registerAgent or updateAgentCard
\* of two callers, postReputation on two targets.
IdentityCallsOf(a) ==
    {IdCall(op, a, "cid1", tags) : op \in {"registerAgent", "updateAgentCard"},
                                   tags \in SharedTagLists}
PostCalls == {PostCall(a, target, MAX_RATING, "good", "") : a \in Callers, target \in Actors}
IndependentPairs ==
    UNION {IdentityCallsOf(p[1]) \X IdentityCallsOf(p[2]) :
              p \in {<<"a1", "a2">>, <<"a1", "a3">>, <<"a2", "a3">>}}
    \cup {p \in PostCalls \X PostCalls : p[1].targetAgent # p[2].targetAgent}

\* C27 as stated: two mutating calls that target different agents have, in either
\* order, the same outcomes and leave the same state as seen through every view.
C27_OrderIndependent ==
    \A w \in {World} : \A p \in IndependentPairs :
        \A first \in {ApplyOn(w, p[1])}, second \in {ApplyOn(w, p[2])} :
            \A thenSecond \in {ApplyOn(first.world, p[2])},
               thenFirst \in {ApplyOn(second.world, p[1])} :
                /\ first.result = thenFirst.result
                /\ second.result = thenSecond.result
                /\ Observe(thenSecond.world) = Observe(thenFirst.world)

\* C27 as amended: two mutating calls that target different agents have, in
\* either order, the same outcomes and leave the same state as seen through every
\* view, but for the order of the agents in getAllRegisteredAgents and in
\* getAgentsByCapability, which is the order of the calls.
C27_OrderIndependentMembers ==
    \A w \in {World} : \A p \in IndependentPairs :
        \A first \in {ApplyOn(w, p[1])}, second \in {ApplyOn(w, p[2])} :
            \A thenSecond \in {ApplyOn(first.world, p[2])},
               thenFirst \in {ApplyOn(second.world, p[1])} :
                /\ first.result = thenFirst.result
                /\ second.result = thenSecond.result
                /\ ObserveMembers(thenSecond.world) = ObserveMembers(thenFirst.world)

\* Beside an agent that holds x and has been rated, two agents that each
\* register with x are listed in the order of their calls, whichever it is.
C27_Witness ==
    /\ getAgentsByCapability("x") = <<"a3">>
    /\ getRatingsCount("a3") = 1
    /\ \E p \in IdentityCallsOf("a1") \X IdentityCallsOf("a2") :
           /\ ApplyOn(ApplyOn(World, p[1]).world, p[2]).result = OK
           /\ ApplyOn(ApplyOn(World, p[2]).world, p[1]).result = OK
           /\ Observe(ApplyOn(ApplyOn(World, p[1]).world, p[2]).world).agentsByCapability["x"]
                  = <<"a3", "a1", "a2">>
           /\ Observe(ApplyOn(ApplyOn(World, p[2]).world, p[1]).world).agentsByCapability["x"]
                  = <<"a3", "a2", "a1">>

\* A storage with the identity registry as it is constructed.
Unregistered(w) ==
    [w EXCEPT !.id = [agents |-> [a \in Actors |-> [agentCardCID |-> "",
                                                   capabilityTags |-> <<>>,
                                                   isRegistered |-> FALSE]],
                      cap2agents |-> [t \in Tags |-> <<>>],
                      idx |-> [t \in Tags |-> [a \in Actors |-> 0]],
                      has |-> [a \in Actors |-> [t \in Tags |-> FALSE]]],
              !.registeredAgents = <<>>,
              !.agentIndexInRegistry = [a \in Actors |-> 0]]

\* The storage of the reputation registry in a storage.
Ledger(w) ==
    <<w.agentReputations, w.agentRatings, w.lastRatingTime, w.ratedAgents, w.hasBeenRated>>

\* C28: postReputation has the outcome and the effects it would have with nobody
\* registered and leaves the identity registry as it was; registerAgent and
\* updateAgentCard leave the reputation registry, and so canRate and every rating
\* query, as they were.
C28_LedgerIndependent ==
    [][(block_timestamp' = block_timestamp
        /\ call'.op \in {"registerAgent", "updateAgentCard", "postReputation"}) =>
          IF call'.op = "postReputation"
          THEN \A text \in TextArgs :
                 \A alone \in {postReputationOn(Unregistered(World), call'.sender,
                                                call'.targetAgent, call'.rating,
                                                text[1], text[2])} :
                     /\ result' = alone.result
                     /\ Ledger(World') = Ledger(alone.world)
                     /\ UNCHANGED idVars
          ELSE /\ UNCHANGED repVars
               /\ \A r \in Callers, a \in Actors :
                     /\ canRate(r, a)' = canRate(r, a)
                     /\ getReputationScore(a)' = getReputationScore(a)
                     /\ getAllRatings(a)' = getAllRatings(a)
                     /\ hasBeenRated(a)' = hasBeenRated(a)]_vars

\* An unregistered rater has rated a registered agent that had rated it before.
C28_Witness ==
    /\ call = RepCall("a2", "a1", 1)
    /\ result = OK
    /\ isAgentRegistered("a1")
    /\ ~isAgentRegistered("a2")
    /\ getRatingsCount("a1") = 1
    /\ getRatingsCount("a2") = 1

\* The agents of list that are in keep, in the order of list.
RECURSIVE Restrict(_, _)
Restrict(list, keep) ==
    IF list = <<>> THEN <<>>
    ELSE LET front == Restrict(SubSeq(list, 1, Len(list) - 1), keep)
         IN  IF list[Len(list)] \in keep THEN Append(front, list[Len(list)]) ELSE front

\* C31 as stated: getAgentsByCapability(T) lists the holders of T from the
\* earliest to the latest acquisition. The lists start empty, so this is: after
\* every call the agents that held T before and still hold it stand in the order
\* they stood in, and a caller that took T (anew, or again) stands last.
C31_AcquisitionOrder ==
    [][\A t \in Tags :
          \A list \in {getAgentsByCapability(t)}, after \in {getAgentsByCapability(t)'} :
              \/ after = Restrict(list, Range(after))
              \/ /\ after # <<>>
                 /\ Last(after) = call'.sender
                 /\ Pop(after) = Restrict(list, Range(after) \ {call'.sender})]_vars

\* C31 as amended: getAgentsByCapability(T) lists the holders of T, each once; a
\* caller that takes T is listed last; a call of an agent that does not hold T
\* keeps the list as a prefix, so the order is the order of acquisition as long
\* as no holder gives T up or names it again; when a holder does, the agent that
\* was last takes its place. A rejected call keeps every list.
C31_AppendedLast ==
    [][\A t \in Tags :
          \A list \in {getAgentsByCapability(t)}, after \in {getAgentsByCapability(t)'} :
              /\ Cardinality(Range(after)) = Len(after)
              /\ IF result' # OK THEN after = list
                 ELSE \A kept \in {IF call'.sender \in Range(list)
                                    THEN SwapAndPop(list, PositionIn(list, call'.sender))
                                    ELSE list} :
                          after = IF s_agentHasCapability'[call'.sender][t]
                                  THEN Append(kept, call'.sender) ELSE kept]_vars

\* a1, a2, a3 took x in this order; a1 named x again in an update and stands
\* last, with a3, the latest before, standing first.
C31_Witness ==
    /\ Called("updateAgentCard") /\ Succeeded
    /\ call.sender = "a1"
    /\ getAllRegisteredAgents = <<"a1", "a2", "a3">>
    /\ getAgentsByCapability("x") = <<"a3", "a2", "a1">>
    /\ getAgentsByCapability("y") = <<>>

\* C32: for every registered agent, every non-empty card reference and every
\* tag list, updateAgentCard succeeds, and the removal loop it runs meets no
\* empty list (no underflow of length - 1) and no position beyond the end of a
\* list.
C32_UpdateSucceeds ==
    \A w \in {World} : \A a \in {b \in Actors : isAgentRegistered(b)} :
        /\ ~RemoveAllCapabilitiesPanicsFrom(w.id, a, 1)
        /\ \A t \in Range(getAgentCapabilities(a).value) :
               /\ getAgentsByCapability(t) # <<>>
               /\ s_agentIndexInCapability[t][a] < Len(getAgentsByCapability(t))
        /\ \A cid \in IndexCIDs \ {""}, tags \in CardTagLists :
               updateAgentCardOn(w, a, cid, tags).result = OK

\* An agent with two tags, not last in the list of one of them and alone in the
\* other, has replaced its tags.
C32_Witness ==
    /\ Called("updateAgentCard") /\ Succeeded
    /\ call.sender = "a2"
    /\ getAgentsByCapability("x") = <<"a1", "a3">>
    /\ getAgentsByCapability("y") = <<"a2">>
    /\ getAgentCapabilities("a3").value = <<"x">>

\* C33: any two ratings stored for the same target that the same rater posted
\* have timestamps at least RATE_LIMIT_PERIOD apart.
C33_RatingsDayApart ==
    \A a \in Actors :
        \A ratings \in {getAllRatings(a)} :
            \A i \in 1..Len(ratings), j \in 1..Len(ratings) :
                (i < j /\ ratings[i].rater = ratings[j].rater) =>
                    ratings[j].timestamp >= ratings[i].timestamp + RATE_LIMIT_PERIOD

\* The same for the ratings posted after the clock value 0.
C33_RatingsDayApartAfterZero ==
    \A a \in Actors :
        \A ratings \in {getAllRatings(a)} :
            \A i \in 1..Len(ratings), j \in 1..Len(ratings) :
                (i < j /\ ratings[i].rater = ratings[j].rater /\ ratings[i].timestamp # 0) =>
                    ratings[j].timestamp >= ratings[i].timestamp + RATE_LIMIT_PERIOD

\* C34: for every agent, getRatingsCount, the totalRatings of getReputationScore,
\* the stored ratingsCount and the length of getAllRatings are equal.
C34_CountersAgree ==
    \A a \in Actors :
        /\ getRatingsCount(a) = getReputationScore(a)[2]
        /\ getRatingsCount(a) = s_agentReputations[a].ratingsCount
        /\ getRatingsCount(a) = Len(getAllRatings(a))
        /\ s_agentReputations[a].totalRatings = s_agentReputations[a].ratingsCount

\* One agent has two ratings, another has one, a third none.
C34_Witness ==
    /\ getRatingsCount("a2") = 2
    /\ getRatingsCount("a3") = 1
    /\ getReputationScore("a1") = <<0, 0>>
    /\ Called("postReputation") /\ Succeeded

\* What the last handler did of one kind.
Did(kind) == {i \in 1..Len(effects) : effects[i].do = kind}

\* C35: REPUTATION_POST submits postReputation only when state.data holds the
\* result CID of the provider.
C35_PostAfterResult ==
    \A i \in Did("writeContract") : state_data.resultCID # ""

\* C36: a PAYMENT_REQUEST invocation sends a request only when state.data holds
\* providerEndpoint and inputCID; the first request it sends carries no payment;
\* it sends one request with a payment at most, after an answer of 402 to the
\* first and after signing; it records a resultCID only next to an answer of 200.
C36_PaymentChallenge ==
    /\ Did("post") # {} => (state_data.providerEndpoint # "" /\ state_data.inputCID # "")
    /\ \A i \in Did("post") :
           IF effects[i].payment
           THEN /\ i = 4
                /\ effects[1].do = "post" /\ ~effects[1].payment
                /\ effects[2].do = "response" /\ effects[2].status = 402
                /\ effects[3].do = "sign"
           ELSE i = 1
    /\ \A i \in Did("resultCID") :
           /\ i = Len(effects)
           /\ effects[i - 1].do = "response" /\ effects[i - 1].status = 200
           /\ state_data.resultCID # ""

\* The plugin's handler was answered 402, paid, was answered 200 and recorded
\* the result.
C36_Witness ==
    /\ actions.PAYMENT_REQUEST = "plugin"
    /\ Len(effects) = 6
    /\ effects[2].do = "response" /\ effects[2].status = 402
    /\ effects[4].do = "post" /\ effects[4].payment
    /\ effects[5].do = "response" /\ effects[5].status = 200
    /\ effects[6].do = "resultCID"
    /\ state_data.resultCID = "cidR"

\* C37: the provider starts its Express server only after the handler of
\* AGENT_REGISTER was called and the agent card was uploaded.
C37_RegisterBeforeServer ==
    \A i \in Did("listen") :
        /\ \E j \in Did("AGENT_REGISTER") : j < i
        /\ \E j \in Did("upload") : j < i

\* The lowest port from SERVER_PORT on that can be listened on.
LowestAvailable ==
    CHOOSE p \in SERVER_PORT..(SERVER_PORT + MaxPorts) :
        /\ ListenOutcome(p) = "listening"
        /\ \A q \in SERVER_PORT..(p - 1) : ListenOutcome(q) # "listening"

\* C38: startAgents comes to start the DirectClient, and starts it on the lowest
\* available port from SERVER_PORT on.
C38_PortSearchTerminates ==
    /\ <>(pc = "started")
    /\ [](pc = "started" => serverPort = LowestAvailable)

\* The same where no agent is started with BASE_RPC_URL set and every listen
\* error is EADDRINUSE.
C38_PortSearchTerminatesWhenInUse ==
    ((\A p \in ProbedPorts : ports[p] # "EACCES") /\ ~env.BASE_RPC_URL)
        => C38_PortSearchTerminates

====
